---- MODULE Spec2Model ----
(***************************************************************************)
(* Model of the pingu-sdk client library: the multi-endpoint resilience    *)
(* layer (PinguClient.switchToNextRpc / withFallback / getContractAddress),*)
(* the operations of PinguTrader / PinguPool that run through it, the      *)
(* error classifier (isKnownEvmRevert) and the order sizing function       *)
(* (PinguTrader.computeSize).                                              *)
(*                                                                         *)
(* One action is one JavaScript turn: the answer of a remote call arrives  *)
(* and the code runs on, synchronously, up to the next remote call it      *)
(* awaits.  Endpoints are identified by their index in rpcUrls.            *)
(***************************************************************************)
EXTENDS Integers, Sequences, FiniteSets, TLC

\* ------------------------------------------------------------- bounds
MaxRpcs == 3          \* largest rpcUrls.length explored
ScaleDigits == 1      \* decimals of SCALE explored  (10 in the source)
UnitDigits == 1       \* decimals of UNIT explored   (18 in the source)
MaxMargin == 25       \* largest margin (raw units) explored
MaxLev == 3           \* largest maxLeverage explored
MaxPairRpcs == 2      \* largest rpcUrls.length explored with two callers
MaxOpsRpcs == 2       \* largest rpcUrls.length explored with whole operations
MaxOrderMargin == 2   \* largest margin of an order
MaxOrderLev == 2      \* largest leverage / maxLeverage of an order
MaxRaceRpcs == 2      \* largest rpcUrls.length explored with getOpenInterest
MaxWrapRpcs == 2      \* largest rpcUrls.length explored with the older client
MaxGas == 2           \* gas estimates explored: 7, 14, ... 7 * MaxGas
MaxPositions == 2     \* largest number of open positions returned
MaxDecimals == 2      \* largest decimals explored besides 6
MaxAmount == 120      \* largest raw amount formatted or parsed

\* ------------------------------------------------------------ vocabulary
NoSigner == -1        \* this.signer === undefined
NoAddr == -1          \* addressCache.get(name) === undefined
NoEp == -1            \* no remote call in flight / no handle yet

\* Logical contract names resolved through the registry (the Address Cache's keys).
Names == {"MarketStore", "Orders", "PositionStore", "Pool", "Positions", "FundStore"}

\* The two names the operations of the one-caller specification resolve (a
\* PinguPool read behaves alike for "Pool" as for either of them).
TradedNames == {"MarketStore", "Orders"}

\* ABI_MAP's keys: "FundStore" is a registry name without an interface.
ABI_MAP == {"DataStore", "Orders", "OrderStore", "Positions", "PositionStore",
            "MarketStore", "Pool", "PoolStore", "RiskStore", "FundingStore",
            "Funding"}

\* REVERT_MESSAGES, in the table's order (four of its entries; "!order-type"
\* stands before "!order", which is a substring of it).
REVERT_MESSAGES ==
  << [code |-> "!order-type",
      text |-> "Invalid order type (must be 0=market, 1=limit, 2=stop)"],
     [code |-> "!min-size", text |-> "Order size is below minimum for this asset"],
     [code |-> "!margin", text |-> "Invalid margin amount"],
     [code |-> "!order", text |-> "Order does not exist"] >>

\* Object.keys(REVERT_MESSAGES)
REVERT_CODES == {REVERT_MESSAGES[i].code : i \in 1 .. Len(REVERT_MESSAGES)}

\* Text is a sequence of tokens; <<>> is the empty / undefined string.
EpTok(e) == <<"rpc0", "rpc1", "rpc2", "rpc3", "rpc4", "rpc5">>[e + 1]
NumTok(n) == <<"1", "2", "3", "4", "5", "6">>[n]

VARIABLES
  rpcCount,         \* rpcUrls.length
  health,           \* per endpoint: "ok" answers, "down" fails, "flaky" either
  ledger,           \* the ledger's deterministic decision: "accept" / "reject"
  currentRpcIndex,  \* PinguClient.currentRpcIndex
  provider,         \* endpoint the current provider was built from
  signer,           \* endpoint the signer's provider was built from, or NoSigner
  dataStore,        \* endpoint the registry binding's provider was built from
  addressCache,     \* name -> endpoint the cached address was resolved through
  cs,               \* callers: the position of each in-flight operation
  stale,            \* names cached at the last switch, not resolved again since
  sizing,           \* computeSize: inputs and output
  probe,            \* an error under classification: the error, the verdict, the text
  codec,            \* formatUnits / parseUnits: the amount, the text, the parsed value
  intent            \* the orders of one call: the parameters, the order array

vars == <<rpcCount, health, ledger, currentRpcIndex, provider, signer,
          dataStore, addressCache, cs, stale, sizing, probe, codec, intent>>

Endpoints == 0 .. (rpcCount - 1)

\* ------------------------------------------------------------- errors
\* An error object: code, error.reason (nested), reason, message.
NoError == [code |-> "none", nested |-> <<>>, reason |-> <<>>, message |-> <<>>]

\* A transport failure of endpoint e (timeout, connection refused).
TransportError(e) ==
  [code |-> "NETWORK_ERROR", nested |-> <<>>, reason |-> <<"timeout">>,
   message |-> <<"timeout", EpTok(e)>>]

\* A read call reverted by the ledger (ethers CALL_EXCEPTION).
CallRevert ==
  [code |-> "CALL_EXCEPTION", nested |-> <<>>, reason |-> <<"!margin">>,
   message |-> <<"call revert exception">>]

\* estimateGas hitting a revert (ethers UNPREDICTABLE_GAS_LIMIT).
GasRevert ==
  [code |-> "UNPREDICTABLE_GAS_LIMIT",
   nested |-> <<"execution reverted:", "!margin">>,
   reason |-> <<"cannot estimate gas">>,
   message |-> <<"cannot estimate gas">>]

\* requireSigner's local error.
SignerRequired ==
  [code |-> "none", nested |-> <<>>, reason |-> <<>>,
   message |-> <<"Signer required for trading">>]

\* getContract: new Error(`Unknown contract: ${name}. Available: ...`)
UnknownContract(name) ==
  [code |-> "none", nested |-> <<>>, reason |-> <<>>,
   message |-> <<"Unknown contract:", name, "Available:">>]

\* PinguPool.requireSigner's local error.
PoolSignerRequired ==
  [code |-> "none", nested |-> <<>>, reason |-> <<>>,
   message |-> <<"Signer required for pool operations">>]

\* submitMarketOrder's local error: the size is below the asset's minimum.
MinSizeError ==
  [code |-> "none", nested |-> <<>>, reason |-> <<>>,
   message |-> <<"Order size", "is below the minimum size", "(!min-size)">>]

\* fetchPythPriceUpdate: new Error(`Failed to fetch Pyth price update: ...`)
PythError ==
  [code |-> "none", nested |-> <<>>, reason |-> <<>>,
   message |-> <<"Failed to fetch Pyth price update:", "fetch failed">>]

\* The operations that fetch a price update between their read and their write.
PythOps == {"removeMargin", "closePositionWithoutProfit"}

\* closePosition's local error: no position matches.
NoPositionError ==
  [code |-> "none", nested |-> <<>>, reason |-> <<>>,
   message |-> <<"No", "position found for">>]

\* new Error(`All ${totalRpcs} RPC endpoints failed. Last error: ${lastError?.message}`)
AggregateError(totalRpcs, lastError) ==
  [code |-> "none", nested |-> <<>>, reason |-> <<>>,
   message |-> <<"All", NumTok(totalRpcs), "RPC endpoints failed. Last error:">>
               \o lastError.message]

\* ---------------------------------------------------------- classifier
\* err.error.reason || err.reason || err.message || ""
RawReason(err) ==
  IF err.nested # <<>> THEN err.nested
  ELSE IF err.reason # <<>> THEN err.reason
  ELSE err.message

\* Is the string sub a substring of the token tok?  (Among the tokens used,
\* the proper substrings are a code inside its quoted form and "!order"
\* inside "!order-type".)
HasSub(tok, sub) ==
  \/ tok = sub
  \/ tok = "'!margin'" /\ sub = "!margin"
  \/ tok = "!order-type" /\ sub = "!order"

\* reason.includes(code)
Includes(text, tok) == \E i \in 1 .. Len(text) : HasSub(text[i], tok)

\* /execution reverted:\s*!/.test(reason)
IsBang(tok) == tok \in REVERT_CODES \cup {"!unknown"}
MatchesRevertBang(text) ==
  \E i \in 1 .. (Len(text) - 1) :
     text[i] = "execution reverted:" /\ IsBang(text[i + 1])

\* /revert/i.test(reason)
MatchesRevert(text) ==
  \E i \in 1 .. Len(text) :
     text[i] \in {"execution reverted:", "Execution reverted:",
                  "call revert exception", "revert"}

isKnownEvmRevertNever(err) == FALSE

isKnownEvmRevert(err) ==
  LET code == err.code
      reason == RawReason(err)
  IN  \/ code = "CALL_EXCEPTION"
      \/ MatchesRevertBang(reason)
      \/ (code = "UNPREDICTABLE_GAS_LIMIT" /\ MatchesRevert(reason))
      \/ \E revertCode \in REVERT_CODES : Includes(reason, revertCode)

\* ------------------------------------------------------ error messages
\* err.error.reason || err.reason || err.message || String(error)
ParseRaw(err) ==
  IF err.nested # <<>> THEN err.nested
  ELSE IF err.reason # <<>> THEN err.reason
  ELSE IF err.message # <<>> THEN err.message
  ELSE <<"[object Object]">>

\* /execution reverted:/i
IsRevertedI(tok) == tok \in {"execution reverted:", "Execution reverted:"}

\* .trim().replace(/^'|'$/g, "") on a one-token capture.
Unquote(tok) == IF tok = "'!margin'" THEN "!margin" ELSE tok

FirstOf(S) == CHOOSE i \in S : \A j \in S : i <= j

\* `${mapped} (${code})`
Mapped(i) == <<REVERT_MESSAGES[i].text, "(", REVERT_MESSAGES[i].code, ")">>

\* parseContractError.  raw.match(/execution reverted:\s*(.+)/i) captures all
\* that follows the first "execution reverted:" up to the end of the text.
parseContractError(err) ==
  LET raw == ParseRaw(err)
      revertMatch == {i \in 1 .. (Len(raw) - 1) : IsRevertedI(raw[i])}
  IN  IF revertMatch # {}
      THEN LET rest == SubSeq(raw, FirstOf(revertMatch) + 1, Len(raw))
               code == IF Len(rest) = 1 THEN <<Unquote(rest[1])>> ELSE rest
               mapped == {i \in 1 .. Len(REVERT_MESSAGES) :
                            code = <<REVERT_MESSAGES[i].code>>}
           IN  IF mapped # {} THEN Mapped(FirstOf(mapped)) ELSE code
      ELSE LET found == {i \in 1 .. Len(REVERT_MESSAGES) :
                           Includes(raw, REVERT_MESSAGES[i].code)}
           IN  IF found # {} THEN Mapped(FirstOf(found)) ELSE raw

\* ------------------------------------------------------------- client
\* The client's mutable fields as one value.
Client ==
  [currentRpcIndex |-> currentRpcIndex, provider |-> provider,
   signer |-> signer, dataStore |-> dataStore, addressCache |-> addressCache]

EmptyCache == [n \in Names |-> NoAddr]

\* The constructor: rpcUrls[0], signer if a privateKey is given.
NewClient(withKey) ==
  [currentRpcIndex |-> 0, provider |-> 0,
   signer |-> IF withKey THEN 0 ELSE NoSigner,
   dataStore |-> 0, addressCache |-> EmptyCache]

switchKeepsCache(cl) ==
  LET idx == (cl.currentRpcIndex + 1) % rpcCount
  IN  [currentRpcIndex |-> idx, provider |-> idx,
       signer |-> IF cl.signer # NoSigner THEN idx ELSE NoSigner,
       dataStore |-> idx, addressCache |-> cl.addressCache]

switchKeepsDataStore(cl) ==
  LET idx == (cl.currentRpcIndex + 1) % rpcCount
  IN  [currentRpcIndex |-> idx, provider |-> idx,
       signer |-> IF cl.signer # NoSigner THEN idx ELSE NoSigner,
       dataStore |-> cl.dataStore, addressCache |-> EmptyCache]

switchKeepsSigner(cl) ==
  LET idx == (cl.currentRpcIndex + 1) % rpcCount
  IN  [currentRpcIndex |-> idx, provider |-> idx,
       signer |-> cl.signer,
       dataStore |-> idx, addressCache |-> EmptyCache]

\* switchToNextRpc going back to the preferred (first) endpoint.
switchToPreferred(cl) ==
  [currentRpcIndex |-> 0, provider |-> 0,
   signer |-> IF cl.signer # NoSigner THEN 0 ELSE NoSigner,
   addressCache |-> EmptyCache, dataStore |-> 0]

switchToNextRpc(cl) ==
  LET idx == (cl.currentRpcIndex + 1) % rpcCount
  IN  [currentRpcIndex |-> idx,
       provider |-> idx,
       signer |-> IF cl.signer # NoSigner THEN idx ELSE NoSigner,
       addressCache |-> EmptyCache,
       dataStore |-> idx]

\* requireSigner(): does the check pass?
requireSignerSkipped(sg) == TRUE

requireSigner(sg) == sg # NoSigner

\* withFallback, line 102: the loop condition, evaluated after attempt++.
loopOneMore(attempt, totalRpcs) == attempt <= totalRpcs

loopContinues(attempt, totalRpcs) == attempt < totalRpcs

\* withFallback, line 114: "try next RPC if there are more to try".
moreAlways(attempt, totalRpcs) == attempt < totalRpcs

moreToTry(attempt, totalRpcs) == attempt < totalRpcs - 1

\* ------------------------------------------------------------ callers
Callers == {1}

\* The operations a caller can run:
\*   "plain"   withFallback(() => provider.getBalance(user))      (getBalance)
\*   "read"    withFallback(() => getContract(name).get(...))     (market info, positions)
\*   "write"   withFallback(() => getContract(name, true): estimateGas, send, wait)
\*   "resolve" getContractAddress(name)                           (getAllowance)
\*   "stale"   pool = getContract(name); withFallback(() => pool.get(...))  (PinguPool reads)
Kinds == {"plain", "read", "write", "resolve", "stale"}

ZeroCount == [e \in 0 .. (MaxRpcs - 1) |-> 0]

\* A caller that is not inside an operation.
IdleCaller ==
  [kind |-> "none", name |-> "", pc |-> "idle",
   attempt |-> 0, lastError |-> NoError,        \* the operation's withFallback
   iattempt |-> 0, ilastError |-> NoError,      \* getContractAddress's withFallback
   ep |-> NoEp,                                 \* endpoint of the call in flight
   handle |-> NoEp,                             \* endpoint the contract handle is bound to
   addr |-> NoAddr,                             \* the address getContractAddress returned
   result |-> "none", error |-> NoError, value |-> NoEp,
   \* history of the observed withFallback invocation
   tracked |-> FALSE, start |-> 0, outcomes |-> <<>>, lastThrown |-> NoError,
   switches |-> 0, nSwitch |-> 0, broadcasts |-> 0, fromCache |-> FALSE,
   hitStale |-> FALSE,
   regCalls |-> ZeroCount, opCalls |-> ZeroCount, tried |-> {},
   \* the estimate the ledger gives for the transaction, the estimate received
   \* in the attempt (NoEp: none yet), the gas limit of the last transaction
   quote |-> 7, gas |-> NoEp, gasLimit |-> NoEp,
   \* the SDK operation the caller runs, its arguments, the error it throws
   op |-> "none", withSize |-> FALSE, margin |-> 0, leverage |-> 0, size |-> 0,
   thrown |-> NoError]

\* The client together with the history variable `stale`.
World == [cl |-> Client, stale |-> stale]

\* switchToNextRpc() called from a catch block.
DoSwitch(w) ==
  [cl |-> switchToNextRpc(w.cl),
   stale |-> w.stale \cup {n \in Names : w.cl.addressCache[n] # NoAddr}]

\* new Error(`Failed to ...: ${parseContractError(error)}`)
Wrapped(prefix, err) ==
  [code |-> "none", nested |-> <<>>, reason |-> <<>>,
   message |-> <<prefix>> \o parseContractError(err)]

\* The catch block of the operation around the withFallback that threw err.
Surfaced(k, err) ==
  CASE k.op = "submitMarketOrder" /\ k.kind = "write" ->
         Wrapped("Failed to submit market order:", err)
    [] k.op = "closePosition" /\ k.kind = "read" ->
         Wrapped("Failed to get positions:", err)
    [] k.op = "closePosition" /\ k.kind = "write" ->
         Wrapped("Failed to close position:", err)
    [] k.op = "cancelOrder" -> Wrapped("Failed to cancel order:", err)
    [] k.op = "removeMargin" /\ k.kind = "write" ->
         Wrapped("Failed to remove margin:", err)
    [] k.op = "closePositionWithoutProfit" /\ k.kind = "write" ->
         Wrapped("Failed to close position without profit:", err)
    [] k.op = "deposit" -> Wrapped("Failed to deposit:", err)
    [] k.op = "getDepositTax" ->
         [code |-> "none", nested |-> <<>>, reason |-> <<>>,
          message |-> <<"Failed to get deposit tax:">> \o err.message]
    [] OTHER -> err

\* withFallback (or getContractAddress) returns val / throws err to the operation.
Done(k, res, err, val) ==
  [k EXCEPT !.pc = "done", !.ep = NoEp, !.result = res, !.error = err, !.value = val,
            !.thrown = IF res = "err" THEN Surfaced(k, err) ELSE NoError]

\* The operation throws err itself, outside any catch block.
LocalFail(k, err) ==
  [k EXCEPT !.pc = "done", !.ep = NoEp, !.result = "err", !.error = err,
            !.value = NoEp, !.thrown = err]

\* this.dataStore.getAddress(name): the lookup leaves through the registry binding.
IssueReg(w, k) ==
  LET e == w.cl.dataStore
  IN  [k EXCEPT !.pc = "regWait", !.ep = e,
                !.regCalls[e] = @ + 1, !.tried = @ \cup {e}]

\* A call on the endpoint e the provider / contract handle is bound to.
IssueCall(k, e, pc) ==
  [k EXCEPT !.pc = pc, !.ep = e, !.opCalls[e] = @ + 1, !.tried = @ \cup {e}]

\* getContractAddress without lines 126-127: every resolution asks the registry.
getContractAddressUncached(w, k) ==
  [w |-> w,
   k |-> IssueReg(w, [k EXCEPT !.iattempt = 0, !.ilastError = NoError,
                               !.fromCache = FALSE])]

\* getContractAddress, lines 125-132: cache hit, or the first lookup of its withFallback.
getContractAddress(w, k) ==
  LET cached == w.cl.addressCache[k.name]
  IN  IF cached # NoAddr
      THEN LET k1 == [k EXCEPT !.addr = cached, !.fromCache = TRUE,
                               !.hitStale = k.name \in w.stale]
           IN  [w |-> w,
                k |-> IF k.kind = "resolve"
                      THEN Done([k1 EXCEPT !.tracked = FALSE], "ok", NoError, cached)
                      ELSE [k1 EXCEPT !.pc = "haveAddr"]]
      ELSE [w |-> w,
            k |-> IssueReg(w, [k EXCEPT !.iattempt = 0, !.ilastError = NoError,
                                        !.fromCache = FALSE])]

\* One invocation of the operation fn by withFallback (line 104).
invokeFn(w, k) ==
  CASE k.kind = "plain" -> [w |-> w, k |-> IssueCall(k, w.cl.provider, "mainWait")]
    [] k.kind = "stale" -> [w |-> w, k |-> IssueCall(k, k.handle, "mainWait")]
    [] OTHER -> getContractAddress(w, k)

\* Was the error produced by the ledger (a business rejection)?
IsRejection(err) == err.code \in {"CALL_EXCEPTION", "UNPREDICTABLE_GAS_LIMIT"}
OutcomeOf(err) == IF IsRejection(err) THEN "B" ELSE "T"

\* fn threw err inside the operation's withFallback: lines 105-122.
fnThrows(w, k, err) ==
  LET k1 == [k EXCEPT !.lastThrown = err, !.outcomes = Append(@, OutcomeOf(err))]
  IN  IF isKnownEvmRevert(err)
      THEN [w |-> w, k |-> Done(k1, "err", err, NoEp)]
      ELSE LET sw == moreToTry(k.attempt, rpcCount)
               w2 == IF sw THEN DoSwitch(w) ELSE w
               k2 == [k1 EXCEPT !.lastError = err, !.attempt = @ + 1,
                                !.switches = IF sw THEN @ + 1 ELSE @,
                                !.nSwitch = IF sw THEN @ + 1 ELSE @]
           IN  IF loopContinues(k2.attempt, rpcCount)
               THEN invokeFn(w2, k2)
               ELSE [w |-> w2,
                     k |-> Done(k2, "err", AggregateError(rpcCount, k2.lastError), NoEp)]

\* getContractAddress's withFallback ended by throwing err.
innerThrows(w, k, err) ==
  IF k.kind \in {"read", "write"}
  THEN fnThrows(w, k, err)
  ELSE [w |-> w, k |-> Done(k, "err", err, NoEp)]

\* dataStore.getAddress threw err inside getContractAddress's withFallback.
lookupThrows(w, k, err) ==
  LET top == k.kind = "resolve"
      k1 == IF top
            THEN [k EXCEPT !.lastThrown = err, !.outcomes = Append(@, OutcomeOf(err))]
            ELSE k
  IN  IF isKnownEvmRevert(err)
      THEN innerThrows(w, k1, err)
      ELSE LET sw == moreToTry(k.iattempt, rpcCount)
               w2 == IF sw THEN DoSwitch(w) ELSE w
               k2 == [k1 EXCEPT !.ilastError = err, !.iattempt = @ + 1,
                                !.switches = IF sw /\ top THEN @ + 1 ELSE @,
                                !.nSwitch = IF sw THEN @ + 1 ELSE @]
           IN  IF loopContinues(k2.iattempt, rpcCount)
               THEN [w |-> w2, k |-> IssueReg(w2, k2)]
               ELSE innerThrows(w2, k2, AggregateError(rpcCount, k2.ilastError))

\* ------------------------------------------------------- order sizing
\* A leverage is held as its number of 1/SCALE units (2.25 is 225 with
\* SCALE = 100): the specification gives it with at most that many decimals.
SCALE == 10 ^ ScaleDigits       \* const SCALE = 10_000_000_000
UNIT == 10 ^ UnitDigits         \* ethers.constants.WeiPerEther

\* Math.min taking the larger argument.
MinTakesLarger(a, b) == IF a <= b THEN b ELSE a

Min(a, b) == IF a <= b THEN a ELSE b

\* Math.floor(cappedLeverage * SCALE) landing one above the exact product.
MathFloorScaledUp(cappedLeverage, roundsDown) == cappedLeverage + 1

\* Math.floor(cappedLeverage * SCALE) on IEEE doubles.  For an integer leverage
\* the product is exact.  Otherwise the double nearest to the decimal, times
\* SCALE, may fall just below the exact integer, and the floor is one less
\* (98.57967 * 1e10 floors to 985796699999); it never exceeds it.
MathFloorScaled(cappedLeverage, roundsDown) ==
  IF cappedLeverage % SCALE # 0 /\ roundsDown
  THEN cappedLeverage - 1
  ELSE cappedLeverage

MathCeilScaled(cappedLeverage, roundsDown) ==
  IF cappedLeverage % SCALE # 0 /\ roundsDown
  THEN cappedLeverage
  ELSE cappedLeverage + 1

computeSizeCeilNoRecheck(margin, leverage, maxLeverage, roundsDown) ==
  LET cappedLeverage == Min(leverage, maxLeverage * SCALE)
      leverageScaled == MathCeilScaled(cappedLeverage, roundsDown)
  IN  (margin * leverageScaled) \div SCALE

computeSizeNoCap(margin, leverage, maxLeverage, roundsDown) ==
  LET leverageScaled == MathFloorScaled(leverage, roundsDown)
      size == (margin * leverageScaled) \div SCALE
      maxLevBN == maxLeverage * UNIT
  IN  IF margin # 0 /\ size # 0
      THEN IF (UNIT * size) \div margin > maxLevBN
           THEN LET capped == margin * maxLeverage
                IN  IF (UNIT * capped) \div margin > maxLevBN
                    THEN capped - 1 ELSE capped
           ELSE size
      ELSE size

\* computeSize whose recheck is not guarded: dividing by a zero margin throws
\* (the result -1 stands for the thrown error).
computeSizeNoGuard(margin, leverage, maxLeverage, roundsDown) ==
  LET cappedLeverage == Min(leverage, maxLeverage * SCALE)
      leverageScaled == MathFloorScaled(cappedLeverage, roundsDown)
      size == (margin * leverageScaled) \div SCALE
      maxLevBN == maxLeverage * UNIT
  IN  IF margin = 0 THEN -1
      ELSE IF (UNIT * size) \div margin > maxLevBN
           THEN LET capped == margin * maxLeverage
                IN  IF (UNIT * capped) \div margin > maxLevBN
                    THEN capped - 1 ELSE capped
           ELSE size

\* PinguTrader.computeSize; roundsDown is the double arithmetic's behaviour.
computeSize(margin, leverage, maxLeverage, roundsDown) ==
  LET cappedLeverage == Min(leverage, maxLeverage * SCALE)
      leverageScaled == MathFloorScaled(cappedLeverage, roundsDown)
      size == (margin * leverageScaled) \div SCALE
      maxLevBN == maxLeverage * UNIT
      onChainLev == (UNIT * size) \div margin
  IN  IF margin # 0 /\ size # 0
      THEN IF onChainLev > maxLevBN
           THEN LET capped == margin * maxLeverage
                    recheck == (UNIT * capped) \div margin
                IN  IF recheck > maxLevBN THEN capped - 1 ELSE capped
           ELSE size
      ELSE size

\* computeSize, lines 106-112: was the branch "if (onChainLev.gt(maxLevBN))" entered?
recoveryTaken(margin, leverage, maxLeverage, roundsDown) ==
  LET cappedLeverage == Min(leverage, maxLeverage * SCALE)
      leverageScaled == MathFloorScaled(cappedLeverage, roundsDown)
      size == (margin * leverageScaled) \div SCALE
  IN  /\ margin # 0
      /\ size # 0
      /\ (UNIT * size) \div margin > maxLeverage * UNIT

\* ------------------------------------------------------------- actions
Answers(e) == health[e] \in {"ok", "flaky"}
Drops(e) == health[e] \in {"down", "flaky"}

SizingIdle ==
  [pc |-> "off", margin |-> 0, leverage |-> 0, maxLeverage |-> 1, size |-> 0,
   recovered |-> FALSE]

ProbeIdle == [pc |-> "off", err |-> NoError, known |-> FALSE, text |-> <<>>]

\* ------------------------------------------------- amounts and text
\* A JavaScript amount: a BigNumber ("bn"), a number ("num"), NaN ("nan") or
\* a string ("str", a sequence of characters).
BN(v) == [tag |-> "bn", v |-> v, s |-> <<>>]
Num(v) == [tag |-> "num", v |-> v, s |-> <<>>]
NaN == [tag |-> "nan", v |-> 0, s |-> <<>>]
Str(s) == [tag |-> "str", v |-> 0, s |-> s]

\* The outcome of a parse: the BigNumber, or a thrown error.
Parsed(v) == [ok |-> TRUE, v |-> v]
ParseThrows == [ok |-> FALSE, v |-> 0]

CodecIdle == [pc |-> "off", amount |-> NaN, decimals |-> 0, text |-> <<>>,
              back |-> ParseThrows]

DigitChars == <<"0", "1", "2", "3", "4", "5", "6", "7", "8", "9">>
DigitValue(ch) == (CHOOSE i \in 1 .. 10 : DigitChars[i] = ch) - 1
IsDigit(ch) == \E i \in 1 .. 10 : DigitChars[i] = ch

RECURSIVE Pow10(_)
Pow10(d) == IF d = 0 THEN 1 ELSE 10 * Pow10(d - 1)

\* BigNumber.toString(): decimal digits, no leading zeros.
RECURSIVE ToDigits(_)
ToDigits(n) ==
  IF n < 10 THEN <<DigitChars[n + 1]>>
  ELSE Append(ToDigits(n \div 10), DigitChars[(n % 10) + 1])

\* BigNumber.from(digits)
RECURSIVE FromDigits(_)
FromDigits(s) ==
  IF s = <<>> THEN 0
  ELSE 10 * FromDigits(SubSeq(s, 1, Len(s) - 1)) + DigitValue(s[Len(s)])

\* while (fraction.length < len) fraction = "0" + fraction
RECURSIVE PadLeft(_, _)
PadLeft(s, len) == IF Len(s) >= len THEN s ELSE PadLeft(<<"0">> \o s, len)

\* while (fraction.length < len) fraction += "0"
RECURSIVE PadRight(_, _)
PadRight(s, len) == IF Len(s) >= len THEN s ELSE PadRight(Append(s, "0"), len)

\* while (fraction[fraction.length - 1] === "0") fraction = fraction.substring(..)
RECURSIVE TrimZeros(_)
TrimZeros(s) ==
  IF s # <<>> /\ s[Len(s)] = "0" THEN TrimZeros(SubSeq(s, 1, Len(s) - 1)) ELSE s

\* fraction.match(/^([0-9]*[1-9]|0)(0*)/)[1]
StripFraction(s) == IF TrimZeros(s) = <<>> THEN <<"0">> ELSE TrimZeros(s)

\* ethers formatFixed without the left padding of the fraction.
formatFixedNoPad(value, decimals) ==
  LET multiplier == Pow10(decimals)
      fraction == StripFraction(ToDigits(value % multiplier))
      whole == ToDigits(value \div multiplier)
  IN  IF decimals = 0 THEN whole ELSE whole \o <<".">> \o fraction

\* ethers.utils.formatUnits(value, decimals) = formatFixed(value, decimals)
formatFixed(value, decimals) ==
  LET multiplier == Pow10(decimals)
      fraction == StripFraction(PadLeft(ToDigits(value % multiplier), decimals))
      whole == ToDigits(value \div multiplier)
  IN  IF decimals = 0 THEN whole ELSE whole \o <<".">> \o fraction

\* ethers.utils.parseUnits(value, decimals) = parseFixed(value, decimals)
parseFixed(value, decimals) ==
  LET dots == {i \in 1 .. Len(value) : value[i] = "."}
      dot == IF dots = {} THEN Len(value) + 1 ELSE CHOOSE i \in dots : TRUE
      whole0 == SubSeq(value, 1, dot - 1)
      fraction0 == SubSeq(value, dot + 1, Len(value))
      whole == IF whole0 = <<>> THEN <<"0">> ELSE whole0
      fraction == TrimZeros(IF fraction0 = <<>> THEN <<"0">> ELSE fraction0)
  IN  IF \/ value = <<>>
         \/ \E i \in 1 .. Len(value) : ~IsDigit(value[i]) /\ value[i] # "."
         \/ value = <<".">>
         \/ Cardinality(dots) > 1
         \/ Len(fraction) > decimals
      THEN ParseThrows
      ELSE Parsed(FromDigits(whole) * Pow10(decimals)
                  + FromDigits(PadRight(fraction, decimals)))

\* Number.prototype.toFixed(decimals) of a non-negative integer.
toFixed(n, decimals) ==
  IF decimals = 0 THEN ToDigits(n)
  ELSE ToDigits(n) \o <<".">> \o PadRight(<<>>, decimals)

\* !amount: undefined, 0, NaN and "" are falsy; a BigNumber is an object.
Falsy(amount) ==
  \/ amount.tag \in {"none", "nan"}
  \/ amount.tag = "num" /\ amount.v = 0
  \/ amount.tag = "str" /\ amount.s = <<>>

\* utils.formatUnits
formatUnits(amount, decimals) ==
  IF Falsy(amount) THEN <<"0">> ELSE formatFixed(amount.v, decimals)

\* parseUnits that scales a BigNumber as it scales a number.
parseUnitsScalesBigNumber(amount, decimals) ==
  IF amount.tag = "str" /\ ~Falsy(amount) THEN parseFixed(amount.s, decimals)
  ELSE IF Falsy(amount) THEN Parsed(0)
  ELSE parseFixed(toFixed(amount.v, decimals), decimals)

\* utils.parseUnits
parseUnits(amount, decimals) ==
  IF amount.tag = "bn" THEN Parsed(amount.v)
  ELSE LET a == IF Falsy(amount) THEN Str(<<"0">>) ELSE amount
       IN  IF a.tag = "num" THEN parseFixed(toFixed(a.v, decimals), decimals)
           ELSE parseFixed(a.s, decimals)

\* The client and caller c after a step that ended in r.
Apply(c, r) ==
  /\ currentRpcIndex' = r.w.cl.currentRpcIndex
  /\ provider' = r.w.cl.provider
  /\ signer' = r.w.cl.signer
  /\ dataStore' = r.w.cl.dataStore
  /\ addressCache' = r.w.cl.addressCache
  /\ stale' = r.w.stale
  /\ cs' = [cs EXCEPT ![c] = r.k]

Commit(c, r) ==
  /\ Apply(c, r)
  /\ UNCHANGED <<rpcCount, health, ledger, sizing, probe, codec, intent>>

\* A caller enters an operation.
Start(c, kind, name) ==
  /\ cs[c].pc \in {"idle", "done"}
  /\ LET k0 == [IdleCaller EXCEPT !.kind = kind, !.name = name,
                                  !.start = currentRpcIndex,
                                  !.tracked = kind \in {"plain", "read", "write", "resolve"}]
     IN  Commit(c,
           CASE kind = "write" /\ ~requireSigner(signer) ->
                  [w |-> World,
                   k |-> Done([k0 EXCEPT !.tracked = FALSE], "err", SignerRequired, NoEp)]
             [] kind \in {"resolve", "stale"} ->
                  getContractAddress(World, [k0 EXCEPT !.tracked = (kind = "resolve")])
             [] OTHER -> invokeFn(World, k0))

\* The registry answers: line 133 caches the address, line 134 returns it.
RegOk(c) ==
  /\ cs[c].pc = "regWait"
  /\ Answers(cs[c].ep)
  /\ LET k == cs[c]
         w == [cl |-> [Client EXCEPT !.addressCache[k.name] = k.ep],
               stale |-> stale \ {k.name}]
         k1 == [k EXCEPT !.addr = k.ep, !.ep = NoEp]
     IN  Commit(c, [w |-> w,
                    k |-> IF k.kind = "resolve"
                          THEN Done([k1 EXCEPT !.outcomes = Append(@, "S")],
                                    "ok", NoError, k.ep)
                          ELSE [k1 EXCEPT !.pc = "haveAddr"]])

\* The registry lookup fails with a transport failure.
RegFail(c) ==
  /\ cs[c].pc = "regWait"
  /\ Drops(cs[c].ep)
  /\ Commit(c, lookupThrows(World, cs[c], TransportError(cs[c].ep)))

\* getContract, lines 142-151, then the operation's first call on the new handle.
IssueMain(c) ==
  /\ cs[c].pc = "haveAddr"
  /\ LET k == cs[c]
         signerOrProvider ==
           IF k.kind = "write" /\ signer # NoSigner THEN signer ELSE provider
         k1 == [k EXCEPT !.handle = signerOrProvider]
     IN  Commit(c,
           CASE k.name \notin ABI_MAP ->        \* lines 143-147: if (!abi) throw
                  IF k.kind \in {"read", "write"}
                  THEN fnThrows(World, k, UnknownContract(k.name))
                  ELSE [w |-> World,
                        k |-> Done(k, "err", UnknownContract(k.name), NoEp)]
             [] k.kind = "read" -> [w |-> World, k |-> IssueCall(k1, k1.handle, "mainWait")]
             [] k.kind = "write" ->    \* contract.estimateGas.<method>(...)
                  [w |-> World,
                   k |-> IssueCall([k1 EXCEPT !.gas = NoEp], k1.handle, "estWait")]
             [] OTHER ->          \* "stale": withFallback starts here, fn keeps the handle
                  invokeFn(World, [k1 EXCEPT !.tracked = TRUE,
                                             !.start = currentRpcIndex,
                                             !.attempt = 0, !.lastError = NoError,
                                             !.tried = {}]))

\* The read call returns, and the operation returns its result.
MainOk(c) ==
  /\ cs[c].pc = "mainWait"
  /\ cs[c].op \notin {"submitMarketOrder", "closePosition"} \cup PythOps
  /\ Answers(cs[c].ep)
  /\ (ledger = "accept" \/ cs[c].kind = "plain")
  /\ Commit(c, [w |-> World,
                k |-> Done([cs[c] EXCEPT !.outcomes = Append(@, "S")],
                           "ok", NoError, cs[c].ep)])

\* The ledger reverts the read call.
MainReject(c) ==
  /\ cs[c].pc = "mainWait"
  /\ Answers(cs[c].ep)
  /\ ledger = "reject" /\ cs[c].kind # "plain"
  /\ Commit(c, fnThrows(World, cs[c], CallRevert))

MainFail(c) ==
  /\ cs[c].pc = "mainWait"
  /\ Drops(cs[c].ep)
  /\ Commit(c, fnThrows(World, cs[c], TransportError(cs[c].ep)))

\* estimateGas returns; the transaction is sent with the buffered gas limit.
\* utils.addGasBuffer with the product rounded up.
addGasBufferCeil(gasEstimate) == (gasEstimate * 12 + 9) \div 10

\* utils.addGasBuffer: gasEstimate.mul(12).div(10)
addGasBuffer(gasEstimate) == (gasEstimate * 12) \div 10

\* The estimate arrives; the transaction is handed to the endpoint with
\* gasLimit: addGasBuffer(gas).
EstOk(c) ==
  /\ cs[c].pc = "estWait"
  /\ Answers(cs[c].ep)
  /\ ledger = "accept"
  /\ Commit(c, [w |-> World,
                k |-> [cs[c] EXCEPT !.pc = "sendWait", !.gas = cs[c].quote]])

EstReject(c) ==
  /\ cs[c].pc = "estWait"
  /\ Answers(cs[c].ep)
  /\ ledger = "reject"
  /\ Commit(c, fnThrows(World, cs[c], GasRevert))

EstFail(c) ==
  /\ cs[c].pc = "estWait"
  /\ Drops(cs[c].ep)
  /\ Commit(c, fnThrows(World, cs[c], TransportError(cs[c].ep)))

\* The endpoint accepted the transaction: it is broadcast; tx.wait() starts.
SendOk(c) ==
  /\ cs[c].pc = "sendWait"
  /\ Answers(cs[c].ep)
  /\ Commit(c, [w |-> World,
                k |-> [cs[c] EXCEPT !.pc = "txWait", !.broadcasts = @ + 1,
                                    !.gasLimit = addGasBuffer(cs[c].gas)]])

\* The submission itself failed: nothing was sent.
SendFail(c) ==
  /\ cs[c].pc = "sendWait"
  /\ Drops(cs[c].ep)
  /\ Commit(c, fnThrows(World, cs[c], TransportError(cs[c].ep)))

\* tx.wait() returns the receipt.
WaitOk(c) ==
  /\ cs[c].pc = "txWait"
  /\ Answers(cs[c].ep)
  /\ Commit(c, [w |-> World,
                k |-> Done([cs[c] EXCEPT !.outcomes = Append(@, "S")],
                           "ok", NoError, cs[c].ep)])

\* tx.wait() fails with a transport failure; it is inside fn, so withFallback catches it.
WaitFail(c) ==
  /\ cs[c].pc = "txWait"
  /\ Drops(cs[c].ep)
  /\ Commit(c, fnThrows(World, cs[c], TransportError(cs[c].ep)))

\* ------------------------------------------------- order intents
\* An optional parameter that was not passed (undefined).
Absent == [tag |-> "none", v |-> 0, s |-> <<>>]

IntentIdle ==
  [pc |-> "off", op |-> "none", isLong |-> FALSE, margin |-> 0, size |-> 0,
   price |-> Absent, tpPrice |-> Absent, slPrice |-> Absent, asset |-> "",
   sizeParam |-> Absent, positions |-> <<>>, orders |-> <<>>, thrown |-> NoError]

\* String.prototype.toLowerCase on the asset addresses explored.
toLowerCase(a) ==
  CASE a = "0xAB" -> "0xab"
    [] a = "0xCD" -> "0xcd"
    [] OTHER -> a

\* utils.createOrderTuple (the fields the operations set).
createOrderTuple(asset, market, isLong, margin, size, price, orderType, isReduceOnly) ==
  [asset |-> asset, market |-> market, margin |-> margin, size |-> size,
   price |-> price, isLong |-> isLong, orderType |-> orderType,
   isReduceOnly |-> isReduceOnly]

\* The order array with the stop order pushed before the take-profit order.
submitOrdersStopFirst(p) ==
  LET limit == p.op = "submitLimitOrder"
      main == createOrderTuple(p.asset, "ETH-USD", p.isLong, p.margin, p.size,
                               IF limit THEN parseUnits(p.price, UnitDigits).v ELSE 0,
                               IF limit THEN 1 ELSE 0, FALSE)
      tp == IF Falsy(p.tpPrice) THEN <<>>
            ELSE <<createOrderTuple(p.asset, "ETH-USD", ~p.isLong, 0, p.size,
                                    parseUnits(p.tpPrice, UnitDigits).v, 1, TRUE)>>
      sl == IF Falsy(p.slPrice) THEN <<>>
            ELSE <<createOrderTuple(p.asset, "ETH-USD", ~p.isLong, 0, p.size,
                                    parseUnits(p.slPrice, UnitDigits).v, 2, TRUE)>>
  IN  <<main>> \o sl \o tp

\* submitMarketOrder lines 165-207, submitLimitOrder lines 276-318: the main
\* order, then the take-profit order, then the stop order.
submitOrders(p) ==
  LET limit == p.op = "submitLimitOrder"
      main == createOrderTuple(p.asset, "ETH-USD", p.isLong, p.margin, p.size,
                               IF limit THEN parseUnits(p.price, UnitDigits).v ELSE 0,
                               IF limit THEN 1 ELSE 0, FALSE)
      tp == IF Falsy(p.tpPrice) THEN <<>>
            ELSE <<createOrderTuple(p.asset, "ETH-USD", ~p.isLong, 0, p.size,
                                    parseUnits(p.tpPrice, UnitDigits).v, 1, TRUE)>>
      sl == IF Falsy(p.slPrice) THEN <<>>
            ELSE <<createOrderTuple(p.asset, "ETH-USD", ~p.isLong, 0, p.size,
                                    parseUnits(p.slPrice, UnitDigits).v, 2, TRUE)>>
  IN  <<main>> \o tp \o sl

\* positions.find without the comparison of the asset.
findPositionAnyAsset(positions, market, isLong, assetAddress) ==
  LET hits == {i \in 1 .. Len(positions) :
                 /\ positions[i].market = market
                 /\ positions[i].isLong = isLong}
  IN  IF hits = {} THEN 0 ELSE CHOOSE i \in hits : \A j \in hits : i <= j

\* closePosition lines 367-372: the index of the first position with the
\* market, the direction and (case-insensitively) the asset; 0 if none.
findPosition(positions, market, isLong, assetAddress) ==
  LET hits == {i \in 1 .. Len(positions) :
                 /\ positions[i].market = market
                 /\ positions[i].isLong = isLong
                 /\ toLowerCase(positions[i].asset) = toLowerCase(assetAddress)}
  IN  IF hits = {} THEN 0 ELSE CHOOSE i \in hits : \A j \in hits : i <= j

\* ------------------------------------------------------- specification
InitEnv ==
  /\ rpcCount \in 1 .. MaxRpcs
  /\ health \in [0 .. (rpcCount - 1) -> {"ok", "down", "flaky"}]
  /\ ledger \in {"accept", "reject"}

InitClient(withKey) ==
  /\ currentRpcIndex = NewClient(withKey).currentRpcIndex
  /\ provider = NewClient(withKey).provider
  /\ signer = NewClient(withKey).signer
  /\ dataStore = NewClient(withKey).dataStore
  /\ addressCache = NewClient(withKey).addressCache
  /\ stale = {}

Init ==
  /\ InitEnv
  /\ \E withKey \in BOOLEAN : InitClient(withKey)
  /\ cs = [c \in Callers |-> IdleCaller]
  /\ sizing = SizingIdle
  /\ probe = ProbeIdle
  /\ codec = CodecIdle
  /\ intent = IntentIdle

Next ==
  \E c \in Callers :
    \/ \E kind \in Kinds :
         \E name \in (IF kind = "plain" THEN {""} ELSE TradedNames) : Start(c, kind, name)
    \/ RegOk(c)
    \/ RegFail(c)
    \/ IssueMain(c)
    \/ MainOk(c)
    \/ MainReject(c)
    \/ MainFail(c)
    \/ EstOk(c)
    \/ EstReject(c)
    \/ EstFail(c)
    \/ SendOk(c)
    \/ SendFail(c)
    \/ WaitOk(c)
    \/ WaitFail(c)

Spec == Init /\ [][Next]_vars

\* Two operations in flight on one client, as Promise.all issues them in
\* PinguReader.getOpenInterest: a withFallback read of "PositionStore", next to
\* a second operation that reaches the registry (getContractAddress) or the
\* provider (a direct call) through its own withFallback.
\* The client is in any state one caller can have left it in: any Active
\* Index, the handles built from it, "PositionStore" cached or not.  Every
\* endpoint may answer or drop each call (the other health values only
\* remove behaviours).
Pair == {1, 2}

\* The client after idx switches from construction (idx < rpcUrls.length).
ClientAt(withKey, idx) ==
  [NewClient(withKey) EXCEPT !.currentRpcIndex = idx, !.provider = idx,
                             !.dataStore = idx,
                             !.signer = IF withKey THEN idx ELSE NoSigner]

InitPair ==
  /\ rpcCount \in 1 .. MaxPairRpcs
  /\ health = [e \in 0 .. (rpcCount - 1) |-> "flaky"]
  /\ ledger \in {"accept", "reject"}
  /\ \E withKey \in BOOLEAN, idx \in 0 .. (rpcCount - 1), cached \in BOOLEAN :
       /\ currentRpcIndex = ClientAt(withKey, idx).currentRpcIndex
       /\ provider = ClientAt(withKey, idx).provider
       /\ signer = ClientAt(withKey, idx).signer
       /\ dataStore = ClientAt(withKey, idx).dataStore
       /\ addressCache = [EmptyCache EXCEPT !["PositionStore"] =
                                              IF cached THEN idx ELSE NoAddr]
  /\ stale = {}
  /\ cs = [c \in Pair |-> IdleCaller]
  /\ sizing = SizingIdle
  /\ probe = ProbeIdle
  /\ codec = CodecIdle
  /\ intent = IntentIdle

\* Each of the two callers runs one operation.
StartOnce(c, kind, name) == cs[c].pc = "idle" /\ Start(c, kind, name)

NextPair ==
  \E c \in Pair :
    \/ StartOnce(c, "plain", "")
    \/ StartOnce(c, "resolve", "PositionStore")
    \/ (c = 1 /\ StartOnce(c, "read", "PositionStore"))
    \/ RegOk(c)
    \/ RegFail(c)
    \/ IssueMain(c)
    \/ MainOk(c)
    \/ MainReject(c)
    \/ MainFail(c)

SpecPair == InitPair /\ [][NextPair]_vars

\* PinguReader.getOpenInterest: Promise.all starts its two withFallback reads
\* of "PositionStore" in the same turn; each runs up to its first await.
GetOpenInterest ==
  /\ \A c \in Pair : cs[c].pc = "idle"
  /\ cs' = [c \in Pair |->
              invokeFn(World, [IdleCaller EXCEPT !.kind = "read",
                                                 !.name = "PositionStore",
                                                 !.start = currentRpcIndex,
                                                 !.tracked = TRUE]).k]
  /\ UNCHANGED <<rpcCount, health, ledger, currentRpcIndex, provider, signer,
                 dataStore, addressCache, stale, sizing, probe, codec, intent>>

\* Every endpoint is healthy or fails every call with a transport failure;
\* the ledger accepts the reads.
InitRace ==
  /\ rpcCount \in 1 .. MaxRaceRpcs
  /\ health \in [0 .. (rpcCount - 1) -> {"ok", "down"}]
  /\ ledger = "accept"
  /\ \E idx \in 0 .. (rpcCount - 1), cached \in BOOLEAN :
       /\ currentRpcIndex = ClientAt(FALSE, idx).currentRpcIndex
       /\ provider = ClientAt(FALSE, idx).provider
       /\ signer = ClientAt(FALSE, idx).signer
       /\ dataStore = ClientAt(FALSE, idx).dataStore
       /\ addressCache = [EmptyCache EXCEPT !["PositionStore"] =
                                              IF cached THEN idx ELSE NoAddr]
  /\ stale = {}
  /\ cs = [c \in Pair |-> IdleCaller]
  /\ sizing = SizingIdle
  /\ probe = ProbeIdle
  /\ codec = CodecIdle
  /\ intent = IntentIdle

NextRace ==
  \/ GetOpenInterest
  \/ \E c \in Pair :
       \/ RegOk(c)
       \/ RegFail(c)
       \/ IssueMain(c)
       \/ MainOk(c)
       \/ MainFail(c)

SpecRace == InitRace /\ [][NextRace]_vars

\* ------------------------------------------------ gas of a write
\* PinguTrader.cancelOrder on a client with a signer; the ledger's estimate
\* for the transaction is a multiple of 7 units.
CancelOrder(c) ==
  /\ cs[c].pc = "idle"
  /\ requireSigner(signer)
  /\ \E i \in 1 .. MaxGas :
       Commit(c, invokeFn(World, [IdleCaller EXCEPT !.kind = "write",
                                                    !.name = "Orders",
                                                    !.op = "cancelOrder",
                                                    !.start = currentRpcIndex,
                                                    !.tracked = TRUE,
                                                    !.quote = 7 * i]))

InitGas ==
  /\ rpcCount \in 1 .. MaxOpsRpcs
  /\ health \in [0 .. (rpcCount - 1) -> {"ok", "down", "flaky"}]
  /\ ledger \in {"accept", "reject"}
  /\ InitClient(TRUE)
  /\ cs = [c \in Callers |-> IdleCaller]
  /\ sizing = SizingIdle
  /\ probe = ProbeIdle
  /\ codec = CodecIdle
  /\ intent = IntentIdle

NextGas ==
  \E c \in Callers :
    \/ CancelOrder(c)
    \/ RegOk(c)
    \/ RegFail(c)
    \/ IssueMain(c)
    \/ EstOk(c)
    \/ EstReject(c)
    \/ EstFail(c)
    \/ SendOk(c)
    \/ SendFail(c)
    \/ WaitOk(c)
    \/ WaitFail(c)

SpecGas == InitGas /\ [][NextGas]_vars

\* ------------------------------------- the older, wraparound client
\* switchRpc(): the next endpoint, or back to index 0 with nothing rebuilt.
switchRpc(cl) ==
  LET next == cl.currentRpcIndex + 1
  IN  IF next >= rpcCount
      THEN [cl |-> [cl EXCEPT !.currentRpcIndex = 0], switched |-> FALSE]
      ELSE [cl |-> [cl EXCEPT !.currentRpcIndex = next, !.provider = next,
                              !.signer = IF @ # NoSigner THEN next ELSE NoSigner,
                              !.addressCache = EmptyCache, !.dataStore = next],
            switched |-> TRUE]

\* withFallback's "return await fn()": fn is a call through this.provider
\* ("plain") or getContractAddress's () => this.dataStore.getAddress(name).
wrapInvoke(cl, k) ==
  IF k.kind = "plain"
  THEN [k EXCEPT !.pc = "mainWait", !.ep = cl.provider]
  ELSE [k EXCEPT !.pc = "regWait", !.ep = cl.dataStore]

\* A caller enters withFallback (startIndex = currentRpcIndex) or
\* getContractAddress (a cache hit returns at once).
WrapStart(c, kind) ==
  /\ cs[c].pc \in {"idle", "done"}
  /\ LET k0 == [IdleCaller EXCEPT !.kind = kind, !.start = currentRpcIndex,
                                  !.name = IF kind = "resolve" THEN "PositionStore"
                                           ELSE ""]
     IN  Commit(c, [w |-> World,
                    k |-> IF kind = "resolve" /\ addressCache[k0.name] # NoAddr
                          THEN Done([k0 EXCEPT !.fromCache = TRUE], "ok", NoError,
                                    addressCache[k0.name])
                          ELSE wrapInvoke(Client, k0)])

\* fn() resolves: withFallback returns; getContractAddress caches the address.
WrapOk(c) ==
  /\ cs[c].pc \in {"mainWait", "regWait"}
  /\ cs[c].kind \in {"plain", "resolve"}
  /\ Answers(cs[c].ep)
  /\ LET k == cs[c]
         cl == IF k.kind = "resolve"
               THEN [Client EXCEPT !.addressCache[k.name] = k.ep]
               ELSE Client
     IN  Commit(c, [w |-> [cl |-> cl, stale |-> stale],
                    k |-> Done(k, "ok", NoError, k.ep)])

\* fn() rejects: switchRpc(), then the break test of the do/while loop.
WrapFail(c) ==
  /\ cs[c].pc \in {"mainWait", "regWait"}
  /\ cs[c].kind \in {"plain", "resolve"}
  /\ Drops(cs[c].ep)
  /\ LET k == [cs[c] EXCEPT !.lastError = TransportError(cs[c].ep)]
         sw == switchRpc(Client)
         all == [code |-> "none", nested |-> <<>>, reason |-> <<>>,
                 message |-> <<"All RPC endpoints failed. Last error:">>
                             \o k.lastError.message]
     IN  Commit(c, [w |-> [cl |-> sw.cl, stale |-> stale],
                    k |-> IF ~sw.switched /\ sw.cl.currentRpcIndex = k.start
                          THEN Done(k, "err", all, NoEp)
                          ELSE wrapInvoke(sw.cl, k)])

\* An endpoint goes down and stays down.
Outage ==
  /\ \E e \in Endpoints :
       /\ health[e] = "ok"
       /\ health' = [health EXCEPT ![e] = "down"]
  /\ UNCHANGED <<rpcCount, ledger, currentRpcIndex, provider, signer, dataStore,
                 addressCache, cs, stale, sizing, probe, codec, intent>>

InitWrap ==
  /\ rpcCount \in 1 .. MaxWrapRpcs
  /\ health \in [0 .. (rpcCount - 1) -> {"ok", "down"}]
  /\ ledger = "accept"
  /\ \E withKey \in BOOLEAN : InitClient(withKey)
  /\ cs = [c \in Callers |-> IdleCaller]
  /\ sizing = SizingIdle
  /\ probe = ProbeIdle
  /\ codec = CodecIdle
  /\ intent = IntentIdle

NextWrap ==
  \/ Outage
  \/ \E c \in Callers :
       \/ WrapStart(c, "plain")
       \/ WrapStart(c, "resolve")
       \/ WrapOk(c)
       \/ WrapFail(c)

SpecWrap == InitWrap /\ [][NextWrap]_vars

\* Every call in flight is answered or fails in the end.
SpecWrapFair ==
  SpecWrap /\ WF_vars(\E c \in Callers : WrapOk(c) \/ WrapFail(c))

\* The sizing function alone, on every input of the bounded ranges.
ComputeSize ==
  /\ sizing.pc = "in"
  /\ \E roundsDown \in BOOLEAN :
       sizing' = [sizing EXCEPT
                    !.pc = "out",
                    !.size = computeSize(sizing.margin, sizing.leverage,
                                         sizing.maxLeverage, roundsDown),
                    !.recovered = recoveryTaken(sizing.margin, sizing.leverage,
                                                sizing.maxLeverage, roundsDown)]
  /\ UNCHANGED <<rpcCount, health, ledger, currentRpcIndex, provider, signer,
                 dataStore, addressCache, cs, stale, probe, codec, intent>>

InitSize ==
  /\ rpcCount = 1
  /\ health = [e \in {0} |-> "ok"]
  /\ ledger = "accept"
  /\ InitClient(TRUE)
  /\ cs = [c \in Callers |-> IdleCaller]
  /\ sizing \in [pc : {"in"},
                 margin : 0 .. MaxMargin,
                 leverage : 0 .. ((MaxLev + 2) * SCALE),
                 maxLeverage : 1 .. MaxLev,
                 size : {0}, recovered : {FALSE}]
  /\ probe = ProbeIdle
  /\ codec = CodecIdle
  /\ intent = IntentIdle

NextSize == ComputeSize

SpecSize == InitSize /\ [][NextSize]_vars

\* ------------------------------------------- the orders of one call
\* submitMarketOrder / submitLimitOrder build their order array.
SubmitOrders ==
  /\ intent.pc = "in"
  /\ intent.op \in {"submitMarketOrder", "submitLimitOrder"}
  /\ intent' = [intent EXCEPT !.pc = "out", !.orders = submitOrders(intent)]
  /\ UNCHANGED <<rpcCount, health, ledger, currentRpcIndex, provider, signer,
                 dataStore, addressCache, cs, stale, sizing, probe, codec>>

\* closePosition, lines 358-390: the size given, or the size of the position
\* found among the open positions getPositionsRaw returned; then the order.
ClosePosition ==
  /\ intent.pc = "in"
  /\ intent.op = "closePosition"
  /\ LET i == findPosition(intent.positions, "ETH-USD", intent.isLong, intent.asset)
         full == Falsy(intent.sizeParam)
         _size == IF full THEN intent.positions[i].sizeRaw
                  ELSE parseUnits(intent.sizeParam, UnitDigits).v
     IN  intent' =
           IF full /\ i = 0
           THEN [intent EXCEPT !.pc = "out", !.thrown = NoPositionError]
           ELSE [intent EXCEPT
                   !.pc = "out", !.size = _size,
                   !.orders = <<createOrderTuple(intent.asset, "ETH-USD",
                                                 ~intent.isLong, 0, _size, 0, 0,
                                                 TRUE)>>]
  /\ UNCHANGED <<rpcCount, health, ledger, currentRpcIndex, provider, signer,
                 dataStore, addressCache, cs, stale, sizing, probe, codec>>

InitIntent ==
  /\ rpcCount = 1
  /\ health = [e \in {0} |-> "ok"]
  /\ ledger = "accept"
  /\ InitClient(TRUE)
  /\ cs = [c \in Callers |-> IdleCaller]
  /\ sizing = SizingIdle
  /\ probe = ProbeIdle
  /\ codec = CodecIdle
  /\ LET prices == {Absent, Num(0), NaN, Num(3), BN(0), BN(3)}
         open == [market : {"ETH-USD", "BTC-USD"}, isLong : BOOLEAN,
                  asset : {"0xAB", "0xCD"}, sizeRaw : 1 .. 2]
     IN  \/ intent \in
              [pc : {"in"}, op : {"submitMarketOrder", "submitLimitOrder"},
               isLong : BOOLEAN, margin : 1 .. MaxOrderMargin,
               size : 2 .. 3, price : {Num(2)},
               tpPrice : prices, slPrice : prices, asset : {"0xab"},
               sizeParam : {Absent}, positions : {<<>>}, orders : {<<>>},
               thrown : {NoError}]
         \/ intent \in
              [pc : {"in"}, op : {"closePosition"},
               isLong : BOOLEAN, margin : {0}, size : {0}, price : {Absent},
               tpPrice : {Absent}, slPrice : {Absent}, asset : {"0xab", "0xCD"},
               sizeParam : {Absent, Num(0), Num(3)},
               positions : UNION {[1 .. n -> open] : n \in 0 .. MaxPositions},
               orders : {<<>>}, thrown : {NoError}]

NextIntent == SubmitOrders \/ ClosePosition

SpecIntent == InitIntent /\ [][NextIntent]_vars

\* ------------------------------------------- formatting and parsing
\* The decimals explored: 0 .. MaxDecimals and the 6 of the USDC-like assets.
DecimalsSet == (0 .. MaxDecimals) \cup {6}

\* Strings handed to parseUnits directly.
TextInputs ==
  {<<>>, <<"0">>, <<"7">>, <<"0", ".", "0">>, <<"1", ".", "5">>, <<".", "5">>,
   <<"1", ".">>, <<".">>, <<"1", ".", "2", ".", "3">>, <<"1", ".", "0", "5", "0">>,
   <<"x">>}

\* text = formatUnits(amount, decimals)
FormatUnits ==
  /\ codec.pc = "in"
  /\ codec.amount.tag \in {"bn", "num"}
  /\ codec' = [codec EXCEPT !.pc = "text",
                            !.text = formatUnits(codec.amount, codec.decimals)]
  /\ UNCHANGED <<rpcCount, health, ledger, currentRpcIndex, provider, signer,
                 dataStore, addressCache, cs, stale, sizing, probe, intent>>

\* back = parseUnits(text, decimals)
ParseText ==
  /\ codec.pc = "text"
  /\ codec' = [codec EXCEPT !.pc = "back",
                            !.back = parseUnits(Str(codec.text), codec.decimals)]
  /\ UNCHANGED <<rpcCount, health, ledger, currentRpcIndex, provider, signer,
                 dataStore, addressCache, cs, stale, sizing, probe, intent>>

\* back = parseUnits(amount, decimals)
ParseUnits ==
  /\ codec.pc = "in"
  /\ codec' = [codec EXCEPT !.pc = "parsed",
                            !.back = parseUnits(codec.amount, codec.decimals)]
  /\ UNCHANGED <<rpcCount, health, ledger, currentRpcIndex, provider, signer,
                 dataStore, addressCache, cs, stale, sizing, probe, intent>>

InitCodec ==
  /\ rpcCount = 1
  /\ health = [e \in {0} |-> "ok"]
  /\ ledger = "accept"
  /\ InitClient(FALSE)
  /\ cs = [c \in Callers |-> IdleCaller]
  /\ sizing = SizingIdle
  /\ probe = ProbeIdle
  /\ codec \in [pc : {"in"},
                amount : {BN(v) : v \in 0 .. MaxAmount}
                           \cup {Num(v) : v \in 0 .. MaxAmount}
                           \cup {NaN} \cup {Str(t) : t \in TextInputs},
                decimals : DecimalsSet, text : {<<>>}, back : {ParseThrows}]
  /\ intent = IntentIdle

NextCodec == FormatUnits \/ ParseText \/ ParseUnits

SpecCodec == InitCodec /\ [][NextCodec]_vars

\* ---------------------------------------------- whole SDK operations
\* asset.minSize of the configuration (getAssetMinSize).
MinSize == 2

\* The operations that start with requireSigner().
WriteOps == {"submitMarketOrder", "closePosition", "cancelOrder", "removeMargin",
             "closePositionWithoutProfit", "deposit"}
Ops == WriteOps \cup {"getDepositTax"}

\* withFallback(async () => { c = await getContract(name); return c.get(...) })
BeginRead(w, k, name) ==
  invokeFn(w, [k EXCEPT !.kind = "read", !.name = name, !.tracked = TRUE,
                        !.start = w.cl.currentRpcIndex, !.attempt = 0,
                        !.lastError = NoError, !.outcomes = <<>>,
                        !.switches = 0, !.tried = {}])

\* withFallback(async () => { c = await getContract(name, true);
\*                            estimateGas; send; return tx.wait() })
BeginWrite(w, k, name) ==
  invokeFn(w, [k EXCEPT !.kind = "write", !.name = name, !.tracked = TRUE,
                        !.start = w.cl.currentRpcIndex, !.attempt = 0,
                        !.lastError = NoError, !.outcomes = <<>>,
                        !.switches = 0, !.tried = {}])

\* A caller invokes an operation of PinguTrader / PinguPool (one per behaviour).
StartOp(c, op, withSize, margin, leverage) ==
  /\ cs[c].pc = "idle"
  /\ LET k0 == [IdleCaller EXCEPT !.op = op, !.withSize = withSize,
                                  !.margin = margin, !.leverage = leverage,
                                  !.start = currentRpcIndex]
     IN  Commit(c,
           CASE op \in WriteOps /\ ~requireSigner(signer) ->
                  [w |-> World,
                   k |-> LocalFail(k0, IF op = "deposit" THEN PoolSignerRequired
                                                        ELSE SignerRequired)]
             [] op = "submitMarketOrder" -> BeginRead(World, k0, "MarketStore")
             [] op = "closePosition" ->
                  IF withSize THEN BeginWrite(World, k0, "Orders")
                  ELSE BeginRead(World, k0, "PositionStore")     \* getPositionsRaw
             [] op = "cancelOrder" -> BeginWrite(World, k0, "Orders")
             [] op \in PythOps -> BeginRead(World, k0, "MarketStore")
             [] op = "deposit" -> BeginWrite(World, k0, "Pool")
             [] OTHER ->                                          \* getDepositTax
                  getContractAddress(World, [k0 EXCEPT !.kind = "stale",
                                                       !.name = "Pool"]))

\* submitMarketOrder: the market info arrives; the size is computed and
\* checked against the minimum; then the order is written.
MarketInfoOk(c) ==
  /\ cs[c].pc = "mainWait"
  /\ cs[c].op = "submitMarketOrder"
  /\ Answers(cs[c].ep)
  /\ ledger = "accept"
  /\ \E maxLeverage \in 1 .. MaxOrderLev, roundsDown \in BOOLEAN :
       LET _size == computeSize(cs[c].margin, cs[c].leverage, maxLeverage, roundsDown)
           k == [cs[c] EXCEPT !.outcomes = Append(@, "S"), !.size = _size]
       IN  Commit(c, IF _size < MinSize
                     THEN [w |-> World, k |-> LocalFail(k, MinSizeError)]
                     ELSE BeginWrite(World, k, "Orders"))

\* closePosition without a size: the user's positions arrive; the matching
\* one gives the size, or there is none.
PositionsOk(c) ==
  /\ cs[c].pc = "mainWait"
  /\ cs[c].op = "closePosition"
  /\ Answers(cs[c].ep)
  /\ ledger = "accept"
  /\ \E found \in BOOLEAN :
       LET k == [cs[c] EXCEPT !.outcomes = Append(@, "S")]
       IN  Commit(c, IF ~found
                     THEN [w |-> World, k |-> LocalFail(k, NoPositionError)]
                     ELSE BeginWrite(World, k, "Orders"))

\* The client is in any state earlier operations can have left it in: any
\* Active Index, the handles built from it, "Pool" cached or not.  Every
\* endpoint may answer or drop each call.
\* removeMargin, closePositionWithoutProfit: the market info arrives; the price update is requested from
\* Pyth Hermes (an HTTP service outside the endpoint pool).
PythFeedOk(c) ==
  /\ cs[c].pc = "mainWait"
  /\ cs[c].op \in PythOps
  /\ Answers(cs[c].ep)
  /\ ledger = "accept"
  /\ Commit(c, [w |-> World,
                k |-> [cs[c] EXCEPT !.outcomes = Append(@, "S"),
                                    !.pc = "pythWait", !.ep = NoEp]])

\* fetchPythPriceUpdate threw: the error leaves the operation as it is.
pythFailedRetried(w, k) == fnThrows(w, k, PythError)

pythFailed(w, k) == [w |-> w, k |-> LocalFail(k, PythError)]

\* The price update arrives: the write starts.
PythOk(c) ==
  /\ cs[c].pc = "pythWait"
  /\ Commit(c, BeginWrite(World, cs[c], "Positions"))

\* fetch() or the decoding of its answer fails.
PythFail(c) ==
  /\ cs[c].pc = "pythWait"
  /\ Commit(c, pythFailed(World, cs[c]))

InitOps ==
  /\ rpcCount \in 1 .. MaxOpsRpcs
  /\ health = [e \in 0 .. (rpcCount - 1) |-> "flaky"]
  /\ ledger \in {"accept", "reject"}
  /\ \E withKey \in BOOLEAN, idx \in 0 .. (rpcCount - 1), cached \in BOOLEAN :
       /\ currentRpcIndex = ClientAt(withKey, idx).currentRpcIndex
       /\ provider = ClientAt(withKey, idx).provider
       /\ signer = ClientAt(withKey, idx).signer
       /\ dataStore = ClientAt(withKey, idx).dataStore
       /\ addressCache = [EmptyCache EXCEPT !["Pool"] = IF cached THEN idx ELSE NoAddr]
  /\ stale = {}
  /\ cs = [c \in Callers |-> IdleCaller]
  /\ sizing = SizingIdle
  /\ probe = ProbeIdle
  /\ codec = CodecIdle
  /\ intent = IntentIdle

NextOps ==
  \E c \in Callers :
    \/ \E op \in Ops, withSize \in BOOLEAN :
         \E margin \in (IF op = "submitMarketOrder" THEN 1 .. MaxOrderMargin ELSE {0}) :
           /\ (withSize => op = "closePosition")
           /\ StartOp(c, op, withSize, margin,
                      IF op = "submitMarketOrder" THEN MaxOrderLev * SCALE ELSE 0)
    \/ RegOk(c)
    \/ RegFail(c)
    \/ IssueMain(c)
    \/ MarketInfoOk(c)
    \/ PositionsOk(c)
    \/ PythFeedOk(c)
    \/ PythOk(c)
    \/ PythFail(c)
    \/ MainOk(c)
    \/ MainReject(c)
    \/ MainFail(c)
    \/ EstOk(c)
    \/ EstReject(c)
    \/ EstFail(c)
    \/ SendOk(c)
    \/ SendFail(c)
    \/ WaitOk(c)
    \/ WaitFail(c)

SpecOps == InitOps /\ [][NextOps]_vars

\* ------------------------------------------- getContract by any name
\* getContract(name) for a name with or without an interface, called inside
\* withFallback ("read") or outside it ("stale").
InitAbi ==
  /\ rpcCount \in 1 .. MaxOpsRpcs
  /\ health \in [0 .. (rpcCount - 1) -> {"ok", "down", "flaky"}]
  /\ ledger \in {"accept", "reject"}
  /\ \E withKey \in BOOLEAN : InitClient(withKey)
  /\ cs = [c \in Callers |-> IdleCaller]
  /\ sizing = SizingIdle
  /\ probe = ProbeIdle
  /\ codec = CodecIdle
  /\ intent = IntentIdle

NextAbi ==
  \E c \in Callers :
    \/ \E kind \in {"read", "stale"}, name \in {"FundStore", "Orders"} :
         StartOnce(c, kind, name)
    \/ RegOk(c)
    \/ RegFail(c)
    \/ IssueMain(c)
    \/ MainOk(c)
    \/ MainReject(c)
    \/ MainFail(c)

SpecAbi == InitAbi /\ [][NextAbi]_vars

\* An operation's call fails with an arbitrary error object: withFallback
\* classifies it, and the operation's catch block formats it.
ErrCodes == {"none", "NETWORK_ERROR", "CALL_EXCEPTION", "UNPREDICTABLE_GAS_LIMIT"}

\* The texts an error's fields (error.reason, reason, message) are drawn from.
ErrTexts ==
  { <<>>,
    <<"timeout">>,
    <<"call revert exception">>,
    <<"execution reverted:", "out of gas">>,
    <<"execution reverted:", "!min-size">>,
    <<"execution reverted:", "!min-size", "(method=estimateGas)">>,
    <<"execution reverted:", "!unknown">>,
    <<"execution reverted:", "'!margin'">>,
    <<"Execution reverted:", "!order-type">>,
    <<"processing response error", "!margin", "(code=SERVER_ERROR)">>,
    <<"!order-type">> }

\* fn() rejects with probe.err inside withFallback; the caller of the operation
\* formats the same error with parseContractError.
CallThrows(c) ==
  /\ cs[c].pc = "mainWait"
  /\ probe.pc = "in"
  /\ Apply(c, fnThrows(World, cs[c], probe.err))
  /\ probe' = [probe EXCEPT !.pc = "out",
                            !.known = isKnownEvmRevert(probe.err),
                            !.text = parseContractError(probe.err)]
  /\ UNCHANGED <<rpcCount, health, ledger, sizing, codec, intent>>

\* A direct provider call is in flight on endpoint 0 of two, first attempt.
InitErr ==
  /\ rpcCount = 2
  /\ health = [e \in {0, 1} |-> "flaky"]
  /\ ledger = "reject"
  /\ InitClient(TRUE)
  /\ cs = [c \in Callers |->
             IssueCall([IdleCaller EXCEPT !.kind = "plain", !.tracked = TRUE],
                       0, "mainWait")]
  /\ sizing = SizingIdle
  /\ probe \in [pc : {"in"},
                err : [code : ErrCodes, nested : ErrTexts, reason : ErrTexts,
                       message : ErrTexts],
                known : {FALSE}, text : {<<>>}]
  /\ codec = CodecIdle
  /\ intent = IntentIdle

NextErr == \E c \in Callers : CallThrows(c)

SpecErr == InitErr /\ [][NextErr]_vars

\* ---------------------------------------------------------------------
\* Properties of the resilience layer (one caller).
\* ---------------------------------------------------------------------
AllTransport(seq) == \A i \in 1 .. Len(seq) : seq[i] = "T"

\* The invocation of withFallback that caller c made has ended.
Ended(c) == cs[c].tracked /\ cs[c].pc = "done"

\* k-1 transport failures, then a success.
FailsThenSucceeds(seq) ==
  /\ Len(seq) >= 1
  /\ seq[Len(seq)] = "S"
  /\ \A i \in 1 .. (Len(seq) - 1) : seq[i] = "T"

RECURSIVE SumUpTo(_, _)
SumUpTo(f, n) == IF n < 0 THEN 0 ELSE f[n] + SumUpTo(f, n - 1)
Total(f) == SumUpTo(f, rpcCount - 1)

\* C1: when every invocation of the operation fails with a transport failure,
\* the operation is invoked exactly N times and withFallback throws
\* 'All N RPC endpoints failed. Last error: <message of the last failure>';
\* for an operation that calls the provider directly the last failure is the
\* one of endpoint (start + N - 1) mod N.
Inv_C1 ==
  \A c \in Callers :
    /\ cs[c].tracked => Len(cs[c].outcomes) <= rpcCount
    /\ (Ended(c) /\ AllTransport(cs[c].outcomes)) =>
         /\ Len(cs[c].outcomes) = rpcCount
         /\ cs[c].result = "err"
         /\ cs[c].error.message =
              <<"All", NumTok(rpcCount), "RPC endpoints failed. Last error:">>
              \o cs[c].lastThrown.message
         /\ cs[c].kind = "plain" =>
              cs[c].error.message =
                <<"All", NumTok(rpcCount), "RPC endpoints failed. Last error:",
                  "timeout", EpTok((cs[c].start + rpcCount - 1) % rpcCount)>>

Wit_C1 ==
  \E c \in Callers :
    /\ Ended(c) /\ AllTransport(cs[c].outcomes)
    /\ cs[c].kind = "plain" /\ rpcCount = 3 /\ cs[c].start = 1
    /\ cs[c].result = "err"

\* C2: a business rejection thrown by the operation, at any attempt position,
\* ends withFallback at once with that same error: it is the last invocation
\* and only the transport failures before it caused a switch.
Inv_C2 ==
  \A c \in Callers :
    cs[c].tracked =>
      \A i \in 1 .. Len(cs[c].outcomes) :
        cs[c].outcomes[i] = "B" =>
          /\ i = Len(cs[c].outcomes)
          /\ cs[c].pc = "done"
          /\ cs[c].result = "err"
          /\ cs[c].error = cs[c].lastThrown
          /\ IsRejection(cs[c].error)
          /\ cs[c].switches = i - 1

Wit_C2 ==
  \E c \in Callers :
    /\ Ended(c)
    /\ Len(cs[c].outcomes) = 3
    /\ cs[c].outcomes[3] = "B"
    /\ cs[c].switches = 2

\* C3 (as claimed): k-1 transport failures then a success: the result is
\* returned after k invocations and Active Index ends at (start + k - 1) mod N.
Claim_C3 ==
  \A c \in Callers :
    (Ended(c) /\ FailsThenSucceeds(cs[c].outcomes)) =>
       /\ cs[c].result = "ok"
       /\ currentRpcIndex = (cs[c].start + Len(cs[c].outcomes) - 1) % rpcCount

\* C4 (as claimed): within one invocation of a trading operation no endpoint is
\* attempted more than once and at most N attempts are made, for the registry
\* lookup as for the operation's own call.
Claim_C4 ==
  \A c \in Callers :
    cs[c].kind \in {"read", "write"} =>
       /\ \A e \in Endpoints : cs[c].regCalls[e] <= 1 /\ cs[c].opCalls[e] <= 1
       /\ Total(cs[c].regCalls) <= rpcCount
       /\ Total(cs[c].opCalls) <= rpcCount

\* C5 (as claimed): with a healthy endpoint in the pool and only transport
\* failures elsewhere every withFallback invocation returns a result, and the
\* aggregate failure is raised only after every endpoint was attempted.
Claim_C5 ==
  \A c \in Callers :
    Ended(c) =>
      /\ ((\E e \in Endpoints : health[e] = "ok") /\ ledger = "accept")
            => cs[c].result = "ok"
      /\ (cs[c].result = "err" /\ AllTransport(cs[c].outcomes))
            => cs[c].tried = Endpoints

\* C6 (as claimed): one invocation of a write operation broadcasts its
\* transaction at most once.
Claim_C6 == \A c \in Callers : cs[c].broadcasts <= 1

\* C9: after a switch no getContractAddress returns a value cached before the
\* switch: the entries cached before it are gone, no cache hit served one, and
\* the lookup in flight goes through the registry binding of the active endpoint.
Inv_C9 ==
  /\ \A n \in stale : addressCache[n] = NoAddr
  /\ \A c \in Callers :
       /\ ~cs[c].hitStale
       /\ cs[c].pc = "regWait" => cs[c].ep = currentRpcIndex

Wit_C9 ==
  \E c \in Callers :
    /\ cs[c].pc = "regWait"
    /\ cs[c].name \in stale
    /\ cs[c].nSwitch >= 1
    /\ cs[c].ep = currentRpcIndex

\* C10: every switchToNextRpc step advances Active Index by one modulo N,
\* builds the provider from that endpoint, re-binds the signer (if any) and the
\* registry binding to it and empties the Address Cache; it does not fail: the
\* operation goes on with its next attempt.
SwitchStep(c) == cs'[c].nSwitch = cs[c].nSwitch + 1

Prop_C10 ==
  [][\A c \in Callers :
       SwitchStep(c) =>
         /\ currentRpcIndex' = (currentRpcIndex + 1) % rpcCount
         /\ provider' = currentRpcIndex'
         /\ dataStore' = currentRpcIndex'
         /\ signer' = (IF signer = NoSigner THEN NoSigner ELSE currentRpcIndex')
         /\ addressCache' = EmptyCache
         /\ cs'[c].pc # "done"]_vars

Wit_C10 ==
  \E c \in Callers :
    /\ cs[c].nSwitch >= 1
    /\ rpcCount = 3
    /\ currentRpcIndex = 0 /\ signer = 0 /\ dataStore = 0
    /\ stale # {}

\* ---------------------------------------------------------------------
\* Properties of computeSize.
\* ---------------------------------------------------------------------
Sized == sizing.pc = "out"

\* The ledger's check: require(UNIT * size / margin <= maxLeverage * UNIT).
PassesLedgerCheck(size, margin, maxLeverage) ==
  (UNIT * size) \div margin <= maxLeverage * UNIT

\* C7: for margin > 0 and 0 < leverage <= maxLeverage the returned size
\* passes the ledger's floored leverage check.
Inv_C7 ==
  (Sized /\ sizing.margin > 0 /\ sizing.leverage > 0
         /\ sizing.leverage <= sizing.maxLeverage * SCALE)
    => PassesLedgerCheck(sizing.size, sizing.margin, sizing.maxLeverage)

Wit_C7 ==
  /\ Sized
  /\ sizing.margin = 25 /\ sizing.maxLeverage = 3
  /\ sizing.leverage = 2 * SCALE + 1
  /\ sizing.size = (25 * (2 * SCALE + 1)) \div SCALE

\* C8: for margin > 0 and leverage > maxLeverage the returned size is
\* margin * maxLeverage exactly.
Inv_C8 ==
  (Sized /\ sizing.margin > 0 /\ sizing.leverage > sizing.maxLeverage * SCALE)
    => sizing.size = sizing.margin * sizing.maxLeverage

\* margin 10, leverage 5, maxLeverage 2: size 20 (100e6, 50, 20 -> 2000e6 scaled down).
Wit_C8 ==
  /\ Sized
  /\ sizing.margin = 10 /\ sizing.leverage = 5 * SCALE /\ sizing.maxLeverage = 2
  /\ sizing.size = 20

\* C13 (as claimed): a PinguPool read retried by withFallback after an endpoint
\* switch is executed against the newly active endpoint, never through a
\* contract handle bound to the abandoned one.
Claim_C13 ==
  \A c \in Callers :
    (cs[c].kind = "stale" /\ cs[c].pc = "mainWait" /\ cs[c].switches >= 1)
      => /\ cs[c].ep = currentRpcIndex
         /\ cs[c].handle = provider

\* ---------------------------------------------------------------------
\* Properties under concurrency (two callers on one client).
\* ---------------------------------------------------------------------
\* C11: in every reachable state, whatever the interleaving of the callers'
\* withFallback invocations, the provider is the one of rpcUrls[currentRpcIndex]
\* and the signer (if any) and the registry binding are bound to that provider.
Inv_C11 ==
  /\ currentRpcIndex \in Endpoints
  /\ provider = currentRpcIndex
  /\ dataStore = provider
  /\ signer \in {NoSigner, provider}

Wit_C11 ==
  /\ \A c \in DOMAIN cs : cs[c].nSwitch >= 1 /\ cs[c].pc \in {"regWait", "mainWait"}
  /\ rpcCount = 2 /\ currentRpcIndex = 0
  /\ signer = 0 /\ dataStore = 0

\* C12 (as claimed): in every reachable state, interleavings included, every
\* Address Cache entry was resolved through the currently active endpoint.
Claim_C12 ==
  \A n \in Names : addressCache[n] # NoAddr => addressCache[n] = currentRpcIndex

\* ---------------------------------------------------------------------
\* Properties of error classification and formatting.
\* ---------------------------------------------------------------------
Probed == probe.pc = "out"

\* A '!' reason code appears in the text (bare or quoted).
HasBangCode(text) ==
  \E i \in 1 .. Len(text) : IsBang(text[i]) \/ IsBang(Unquote(text[i]))

\* 'execution reverted:' directly followed by the given code.
RevertedWith(text, code) ==
  \E i \in 1 .. (Len(text) - 1) :
     text[i] = "execution reverted:" /\ text[i + 1] = code

\* C14 (as claimed): an error is classified as a business rejection only if it
\* carries a '!' reason code (with the call-reverted marker, after
\* 'execution reverted:', or as a known code in its text); an error without
\* any '!' code in any of its fields is a transport failure.
Claim_C14 ==
  (Probed /\ probe.known) =>
     \/ HasBangCode(probe.err.nested)
     \/ HasBangCode(probe.err.reason)
     \/ HasBangCode(probe.err.message)

\* C15 (as claimed): an error whose message contains 'execution reverted:'
\* followed by a '!code', or a known '!code' anywhere, is classified as a
\* business rejection whatever its other fields hold.
Claim_C15 ==
  (Probed /\ (\/ MatchesRevertBang(probe.err.message)
              \/ \E code \in REVERT_CODES : Includes(probe.err.message, code)))
    => probe.known

\* C16 (as claimed): a call inside withFallback failing with a message that
\* contains 'execution reverted: <code>', for a code of the table, is
\* classified as a business rejection, causes no endpoint switch and is
\* formatted as '<table text> (<code>)'.
Claim_C16 ==
  \A i \in 1 .. Len(REVERT_MESSAGES) :
    (Probed /\ RevertedWith(probe.err.message, REVERT_MESSAGES[i].code)) =>
       /\ probe.known
       /\ currentRpcIndex = 0
       /\ \A c \in Callers : cs[c].nSwitch = 0 /\ cs[c].error = probe.err
       /\ probe.text = Mapped(i)

\* C17 (as claimed): the text parseContractError examines carries a code of
\* the table: the result is '<table text> (<code>)'; it carries
\* 'execution reverted:' and a code that is not in the table: the result is
\* that code; it carries neither: the result is the text, unchanged.
Claim_C17 ==
  LET raw == ParseRaw(probe.err)
      carried == {i \in 1 .. Len(REVERT_MESSAGES) :
                    Includes(raw, REVERT_MESSAGES[i].code)}
      reverted == \E i \in 1 .. Len(raw) : IsRevertedI(raw[i])
  IN  Probed =>
        /\ carried # {} => probe.text \in {Mapped(i) : i \in carried}
        /\ (carried = {} /\ RevertedWith(raw, "!unknown")) => probe.text = <<"!unknown">>
        /\ (carried = {} /\ ~reverted) => probe.text = raw

\* ---------------------------------------------------------------------
\* Properties of whole operations: local validation.
\* ---------------------------------------------------------------------
\* Remote calls issued so far in the caller's current invocation.
RemoteCalls(k) == Total(k.regCalls) + Total(k.opCalls)

\* C18 (as claimed): submitMarketOrder with a computed size below the asset's
\* minimum fails with the local validation error before any remote call.
Claim_C18 ==
  \A c \in Callers :
    (cs[c].op = "submitMarketOrder" /\ cs[c].pc = "done" /\ cs[c].thrown = MinSizeError)
      => RemoteCalls(cs[c]) = 0

\* C19 (as claimed): closePosition without a size and without a matching
\* position fails with the local validation error, and no remote call is
\* issued during the invocation.
Claim_C19 ==
  \A c \in Callers :
    (cs[c].op = "closePosition" /\ ~cs[c].withSize /\ cs[c].pc = "done"
       /\ cs[c].thrown = NoPositionError)
      => RemoteCalls(cs[c]) = 0

\* C20: a write operation of PinguTrader or PinguPool invoked on a client
\* without signer ends in the same step with the signer-required error: no
\* remote call is issued, and Active Index, provider, registry binding and
\* Address Cache are left as they were.
Prop_C20 ==
  [][\A c \in Callers :
       (cs[c].pc \in {"idle", "done"} /\ cs'[c] # cs[c] /\ cs'[c].op \in WriteOps
          /\ signer = NoSigner)
       => /\ cs'[c].pc = "done"
          /\ cs'[c].thrown \in {SignerRequired, PoolSignerRequired}
          /\ RemoteCalls(cs'[c]) = 0
          /\ UNCHANGED <<currentRpcIndex, provider, signer, dataStore,
                         addressCache>>]_vars

\* A deposit refused on a signerless client that a read had moved to
\* endpoint 1 with "Pool" cached.
Wit_C20 ==
  \E c \in Callers :
    /\ cs[c].op = "deposit" /\ cs[c].pc = "done"
    /\ cs[c].thrown = PoolSignerRequired
    /\ signer = NoSigner
    /\ currentRpcIndex = 1 /\ provider = 1 /\ addressCache["Pool"] = 1

\* C21 (as claimed): getContract with a name that has no interface fails with
\* the 'Unknown contract' error without a registry lookup or any other remote
\* call and without an endpoint switch, inside withFallback as outside it.
Claim_C21 ==
  \A c \in Callers :
    (cs[c].name \in Names \ ABI_MAP) =>
       /\ RemoteCalls(cs[c]) = 0
       /\ cs[c].nSwitch = 0
       /\ cs[c].pc = "done" =>
            (cs[c].result = "err" /\ cs[c].error = UnknownContract(cs[c].name))

\* C22: removeMargin or closePositionWithoutProfit whose price update cannot be fetched ends at once with
\* the fetch error: it is not retried, no endpoint switch happens, the client
\* is left as it was, and the write (gas estimate, submission) is never issued.
Prop_C22 ==
  /\ [](\A c \in Callers :
          cs[c].thrown = PythError =>
            /\ cs[c].pc = "done" /\ cs[c].result = "err"
            /\ cs[c].kind # "write" /\ cs[c].broadcasts = 0)
  /\ [][\A c \in Callers :
          (cs[c].pc = "pythWait" /\ cs'[c].kind # "write") =>
             /\ cs'[c].pc = "done"
             /\ cs'[c].thrown = PythError
             /\ cs'[c].nSwitch = cs[c].nSwitch
             /\ cs'[c].regCalls = cs[c].regCalls /\ cs'[c].opCalls = cs[c].opCalls
             /\ UNCHANGED <<currentRpcIndex, provider, signer, dataStore,
                            addressCache>>]_vars

\* The fetch failed after the market-info read had failed over to endpoint 1.
Wit_C22 ==
  \E c \in Callers :
    /\ cs[c].op = "closePositionWithoutProfit" /\ cs[c].pc = "done"
    /\ cs[c].thrown = PythError
    /\ cs[c].nSwitch >= 1 /\ currentRpcIndex = 1
    /\ addressCache["MarketStore"] = 1

\* C23: formatting a non-negative integer amount with d decimals and parsing
\* the text with the same d gives the amount back, for every d explored
\* (0 included) and every amount (0 included).
Inv_C23 ==
  codec.pc = "back" => codec.back = Parsed(codec.amount.v)

\* 105 with 2 decimals is "1.05" and parses back to 105.
Wit_C23 ==
  /\ codec.pc = "back" /\ codec.amount = BN(105) /\ codec.decimals = 2
  /\ codec.text = <<"1", ".", "0", "5">>
  /\ codec.back = Parsed(105)

\* C24: parseUnits maps 0, the empty string and NaN to zero, and returns a
\* BigNumber unchanged whatever the decimals.
Inv_C24 ==
  codec.pc = "parsed" =>
    /\ Falsy(codec.amount) => codec.back = Parsed(0)
    /\ codec.amount.tag = "bn" => codec.back = Parsed(codec.amount.v)

\* A BigNumber 7 parsed with 6 decimals stays 7.
Wit_C24 ==
  /\ codec.pc = "parsed" /\ codec.amount = BN(7) /\ codec.decimals = 6
  /\ codec.back = Parsed(7)

\* C25: computeSize with a zero margin, or with a size of 0 after the scaling
\* step, returns 0: the recheck and its division by the margin are skipped.
Inv_C25 ==
  (Sized /\ (\/ sizing.margin = 0
             \/ sizing.margin * Min(sizing.leverage, sizing.maxLeverage * SCALE)
                  < SCALE))
    => sizing.size = 0

\* A zero margin at leverage 2 gives size 0.
Wit_C25 ==
  /\ Sized /\ sizing.margin = 0 /\ sizing.leverage = 2 * SCALE
  /\ sizing.maxLeverage = 3 /\ sizing.size = 0

\* C26: the Active Index is always within [0, N); it changes only by one step
\* forward modulo N, and only in a step where a withFallback loop has taken a
\* failure that is not a known revert while attempts remain (attempt < N - 1).
Prop_C26 ==
  /\ [](currentRpcIndex \in Endpoints)
  /\ [][currentRpcIndex' # currentRpcIndex =>
          /\ currentRpcIndex' = (currentRpcIndex + 1) % rpcCount
          /\ \E c \in Callers :
               /\ cs'[c].nSwitch = cs[c].nSwitch + 1
               /\ \/ /\ cs'[c].attempt = cs[c].attempt + 1
                     /\ cs[c].attempt < rpcCount - 1
                     /\ cs'[c].lastError # NoError
                     /\ ~isKnownEvmRevert(cs'[c].lastError)
                  \/ /\ cs'[c].iattempt = cs[c].iattempt + 1
                     /\ cs'[c].attempt = cs[c].attempt
                     /\ cs[c].iattempt < rpcCount - 1
                     /\ cs'[c].ilastError # NoError
                     /\ ~isKnownEvmRevert(cs'[c].ilastError)]_vars

\* With three endpoints the index has gone 0, 1, 2 and the third attempt failed too.
Wit_C26 ==
  \E c \in Callers :
    /\ rpcCount = 3 /\ currentRpcIndex = 2
    /\ cs[c].nSwitch = 2 /\ cs[c].attempt = 3
    /\ cs[c].pc = "done" /\ cs[c].result = "err"

\* C27: every failure a PinguTrader operation ends with carries that
\* operation's own prefix 'Failed to <operation>:' at the head of its message,
\* whichever step of the operation failed.
Claim_C27 ==
  \A c \in Callers :
    (cs[c].pc = "done" /\ cs[c].result = "err"
       /\ cs[c].op \in WriteOps \ {"deposit"}) =>
      /\ cs[c].thrown.message # <<>>
      /\ cs[c].thrown.message[1] =
           CASE cs[c].op = "submitMarketOrder" -> "Failed to submit market order:"
             [] cs[c].op = "closePosition" -> "Failed to close position:"
             [] cs[c].op = "cancelOrder" -> "Failed to cancel order:"
             [] cs[c].op = "removeMargin" -> "Failed to remove margin:"
             [] cs[c].op = "closePositionWithoutProfit" ->
                  "Failed to close position without profit:"

\* C28 (as claimed): of the two withFallback reads that getOpenInterest has in
\* flight together, each returns a result when some endpoint is healthy and
\* the others only fail with transport failures, and neither ends with the
\* aggregate failure before its operation was attempted on every endpoint.
Claim_C28 ==
  \A c \in Pair :
    (c \in DOMAIN cs /\ Ended(c)) =>
      /\ (\E e \in Endpoints : health[e] = "ok") => cs[c].result = "ok"
      /\ cs[c].result = "err" => cs[c].tried = Endpoints

\* C29 (as claimed): in the wraparound client, once every endpoint is down, an
\* invocation of withFallback in flight ends (with the aggregate error),
\* whatever Active Index it started from.
Claim_C29 ==
  \A c \in Callers :
    ((\A e \in Endpoints : health[e] = "down")
       /\ cs[c].pc \in {"mainWait", "regWait"})
      ~> (cs[c].pc = "done")

\* C30 (as claimed): in the wraparound client every step that moves the Active
\* Index, the wrap to 0 included, leaves provider, signer and registry binding
\* built from the new index and the Address Cache empty, so the provider is
\* always connected to rpcUrls[currentRpcIndex].
Claim_C30 ==
  /\ [](provider = currentRpcIndex)
  /\ [][currentRpcIndex' # currentRpcIndex =>
          /\ provider' = currentRpcIndex'
          /\ dataStore' = currentRpcIndex'
          /\ signer' \in {NoSigner, currentRpcIndex'}
          /\ addressCache' = EmptyCache]_vars

\* C31: in every attempt of a write the transaction is broadcast only after
\* the gas estimate of that same attempt has arrived, with the gas limit
\* floor(estimate * 12 / 10); an attempt whose estimate fails broadcasts nothing.
Prop_C31 ==
  /\ [](\A c \in Callers :
          /\ cs[c].pc \in {"sendWait", "txWait"} => cs[c].gas # NoEp
          /\ cs[c].pc = "estWait" => cs[c].gas = NoEp)
  /\ [][\A c \in Callers :
          /\ cs'[c].broadcasts > cs[c].broadcasts =>
               /\ cs[c].pc = "sendWait" /\ cs[c].gas # NoEp
               /\ cs'[c].broadcasts = cs[c].broadcasts + 1
               /\ 10 * cs'[c].gasLimit <= 12 * cs[c].gas
               /\ 12 * cs[c].gas < 10 * (cs'[c].gasLimit + 1)
          /\ (cs[c].pc = "estWait" /\ cs'[c].pc # "sendWait") =>
               /\ cs'[c].broadcasts = cs[c].broadcasts
               /\ cs'[c].pc = "done" \/ cs'[c].attempt = cs[c].attempt + 1]_vars

\* The second attempt's estimate was 14: its transaction went out with limit 16
\* after the first attempt's estimate had failed.
Wit_C31 ==
  \E c \in Callers :
    /\ cs[c].kind = "write" /\ cs[c].attempt = 1 /\ cs[c].pc = "txWait"
    /\ cs[c].broadcasts = 1 /\ cs[c].gas = 14 /\ cs[c].gasLimit = 16
    /\ cs[c].outcomes = <<"T">>

Inv_C33 ==
  (intent.pc = "out" /\ intent.op = "closePosition" /\ intent.thrown = NoError) =>
    LET o == intent.orders
    IN  /\ Len(o) = 1
        /\ o[1].isReduceOnly /\ o[1].orderType = 0 /\ o[1].price = 0
        /\ o[1].margin = 0 /\ o[1].isLong = ~intent.isLong
        /\ Falsy(intent.sizeParam) =>
             \E i \in 1 .. Len(intent.positions) :
               LET p == intent.positions[i]
               IN  /\ p.market = "ETH-USD" /\ p.isLong = intent.isLong
                   /\ toLowerCase(p.asset) = toLowerCase(intent.asset)
                   /\ o[1].size = p.sizeRaw

\* A full close of the long position in asset 0xab, listed after a long
\* position of the same market in another asset and of another size.
Wit_C33 ==
  /\ intent.pc = "out" /\ intent.op = "closePosition" /\ intent.isLong
  /\ intent.sizeParam = Absent /\ intent.asset = "0xab"
  /\ Len(intent.positions) = 2
  /\ intent.positions[1] = [market |-> "ETH-USD", isLong |-> TRUE,
                             asset |-> "0xCD", sizeRaw |-> 1]
  /\ intent.positions[2] = [market |-> "ETH-USD", isLong |-> TRUE,
                             asset |-> "0xAB", sizeRaw |-> 2]
  /\ Len(intent.orders) = 1 /\ intent.orders[1].size = 2

\* C34: for every margin >= 0 and leverage >= 0 the returned size is at most
\* margin times the desired leverage: size * SCALE <= margin * (leverage in
\* 1/SCALE units).
Inv_C34 ==
  Sized => sizing.size * SCALE <= sizing.margin * sizing.leverage

\* Margin 25 at leverage 1.5 (maxLeverage 3): size 37, below 37.5.
Wit_C34 ==
  /\ Sized /\ sizing.margin = 25 /\ sizing.maxLeverage = 3
  /\ sizing.leverage = SCALE + (SCALE \div 2)
  /\ sizing.size = (25 * (SCALE + (SCALE \div 2))) \div SCALE
  /\ sizing.size * SCALE < sizing.margin * sizing.leverage

\* C37: for margin > 0, maxLeverage >= 1 and leverage > 0 the recovery branch
\* of the recheck (clamp to margin * maxLeverage, then one unit less) is never
\* entered: the size of step 2 already passes the ledger's check.
Inv_C37 ==
  (Sized /\ sizing.margin > 0 /\ sizing.leverage > 0) => ~sizing.recovered

\* The size sits exactly on the ceiling (leverage above maxLeverage) and the
\* branch was not entered.
Wit_C37 ==
  /\ Sized /\ ~sizing.recovered
  /\ sizing.margin = 25 /\ sizing.maxLeverage = 2
  /\ sizing.leverage = 3 * SCALE /\ sizing.size = 50

\* C35 (as claimed): a withFallback invocation whose operation succeeds on its
\* first invocation, or is rejected by the ledger on its first invocation, or
\* that runs on a pool of one endpoint, performs no switch: Active Index,
\* provider, signer and registry binding are those of its start, and the
\* Address Cache was not cleared (for the pool reads, whose handle is resolved
\* before withFallback starts, the switches of the invocation itself count).
Claim_C35 ==
  \A c \in Callers :
    (Ended(c) /\ (\/ cs[c].outcomes \in {<<"S">>, <<"B">>}
                  \/ rpcCount = 1)) =>
      /\ IF cs[c].kind = "stale" THEN cs[c].switches = 0 ELSE cs[c].nSwitch = 0
      /\ currentRpcIndex = cs[c].start
      /\ provider = cs[c].start /\ dataStore = cs[c].start
      /\ signer \in {NoSigner, cs[c].start}

\* C36: when a withFallback invocation whose operation performs no switch of
\* its own (a provider call, a pool read on a kept handle, the registry lookup
\* of getContractAddress) ends in the aggregate failure, it performed exactly
\* N - 1 switches and Active Index, with every handle, is at
\* (start + N - 1) mod N, the endpoint of the last failure; the invocation made
\* next starts from the endpoint the client is on and sends its first call there.
Prop_C36 ==
  /\ [](\A c \in Callers :
          (/\ Ended(c) /\ cs[c].kind \in {"plain", "stale", "resolve"}
           /\ cs[c].result = "err" /\ cs[c].outcomes # <<>>
           /\ AllTransport(cs[c].outcomes)) =>
             /\ cs[c].switches = rpcCount - 1
             /\ currentRpcIndex = (cs[c].start + rpcCount - 1) % rpcCount
             /\ provider = currentRpcIndex /\ dataStore = currentRpcIndex
             /\ cs[c].lastThrown = TransportError(currentRpcIndex)
                  \/ cs[c].kind = "stale")
  /\ [][\A c \in Callers :
          (cs[c].pc = "done" /\ cs'[c].pc # "done") =>
             /\ currentRpcIndex' = currentRpcIndex
             /\ cs'[c].start = currentRpcIndex
             /\ cs'[c].ep \in {currentRpcIndex, NoEp}]_vars

Wit_C36 ==
  \E c \in Callers :
    /\ Ended(c) /\ cs[c].kind = "plain" /\ cs[c].result = "err"
    /\ cs[c].outcomes = <<"T", "T", "T">> /\ cs[c].switches = 2
    /\ rpcCount = 3 /\ cs[c].start = 2 /\ currentRpcIndex = 1

\* C38: getContractAddress with one caller. No registry lookup is in flight for
\* a name the Address Cache holds, so between two switches (the only steps that
\* clear the cache) at most one lookup per name succeeds; a resolution started
\* while the name is cached returns the cached address without a remote call
\* and leaves the cache alone; a lookup that succeeds fills an empty entry; a
\* resolution that failed leaves no entry for the name.
Prop_C38 ==
  /\ [](\A c \in Callers :
          /\ cs[c].pc = "regWait" => addressCache[cs[c].name] = NoAddr
          /\ (/\ cs[c].kind \in {"resolve", "stale"} /\ cs[c].pc = "done"
              /\ cs[c].result = "err" /\ cs[c].addr = NoAddr) =>
                addressCache[cs[c].name] = NoAddr)
  /\ [][\A c \in Callers :
          /\ (/\ cs[c].pc \in {"idle", "done"} /\ cs'[c].pc # cs[c].pc
              /\ cs'[c].kind \in {"read", "write", "resolve", "stale"}
              /\ addressCache[cs'[c].name] # NoAddr
              /\ cs'[c].thrown = NoError) =>
                /\ cs'[c].fromCache /\ cs'[c].pc # "regWait"
                /\ Total(cs'[c].regCalls) = 0
                /\ cs'[c].addr = addressCache[cs'[c].name]
                /\ addressCache' = addressCache
          /\ \A n \in Names :
               (addressCache'[n] # NoAddr /\ addressCache'[n] # addressCache[n]) =>
                  /\ addressCache[n] = NoAddr
                  /\ cs[c].pc = "regWait" /\ cs[c].name = n
                  /\ Total(cs'[c].regCalls) = Total(cs[c].regCalls)]_vars

Wit_C38 ==
  \E c \in Callers :
    /\ cs[c].kind = "resolve" /\ cs[c].pc = "done" /\ cs[c].result = "ok"
    /\ cs[c].fromCache /\ Total(cs[c].regCalls) = 0
    /\ cs[c].value = addressCache[cs[c].name]
    /\ addressCache[cs[c].name] # NoAddr

====
